---- MODULE Spec2Model ----
(***************************************************************************)
(* Model of the Transfer plugin (kocheck/Transfer): the dependency         *)
(* analyzer, the batch/cancellation runner, the transfer orchestrator and  *)
(* the plugin's message handlers.                                          *)
(***************************************************************************)
EXTENDS Integers, Sequences, FiniteSets, TLC

(***************************************************************************)
(* Bounds of the model.                                                    *)
(***************************************************************************)
MaxSel == 2
MaxStack == 8
MaxItems == 3
MaxBatch == 2
MAX_HISTORY_ENTRIES == 50
MaxTotal == 4
MaxComps == 3
MaxColumns == 2
MaxSpacing == 1
MaxLevel == 1
MaxCount == 110
MaxBase == 2
MaxEntryId == 52
MaxNodes == 5
MaxInterval == 3
MaxTime == 6
DefaultWidth == 200
DefaultHeight == 200
MaxProcessed == 5

(***************************************************************************)
(* The scene graph.  The tree skeleton is fixed; the resolved definition   *)
(* of every instance and the flags and keys of the definitions vary.       *)
(*                                                                         *)
(*   DOC - P - A  (COMPONENT)      [ iA1, fA [ iA2 ] ]                     *)
(*           - B  (COMPONENT)      [ iB1 ]                                 *)
(*           - C  (COMPONENT)      [ ]                                     *)
(*           - S  (COMPONENT_SET)  [ V1 [ iV1 ], V2 [ iV2 ] ]              *)
(*           - F  (FRAME)          [ iF1, G [ iF2 ] ]                      *)
(*           - X  (INSTANCE)                                               *)
(***************************************************************************)
Null == "null"

Instances == {"iA1", "iA2", "iB1", "iV1", "iV2", "iF1", "iF2", "X"}
Definitions == {"A", "B", "C", "S", "V1", "V2"}
Nodes == Definitions \cup Instances \cup {"fA", "F", "G", "P", "DOC"}

NodeType(n) ==
    CASE n \in {"A", "B", "C", "V1", "V2"} -> "COMPONENT"
      [] n = "S" -> "COMPONENT_SET"
      [] n \in Instances -> "INSTANCE"
      [] n \in {"fA", "F"} -> "FRAME"
      [] n = "G" -> "GROUP"
      [] n = "P" -> "PAGE"
      [] OTHER -> "DOCUMENT"

NodeChildren(n) ==
    CASE n = "DOC" -> <<"P">>
      [] n = "P" -> <<"A", "B", "C", "S", "F", "X">>
      [] n = "A" -> <<"iA1", "fA">>
      [] n = "fA" -> <<"iA2">>
      [] n = "B" -> <<"iB1">>
      [] n = "S" -> <<"V1", "V2">>
      [] n = "V1" -> <<"iV1">>
      [] n = "V2" -> <<"iV2">>
      [] n = "F" -> <<"iF1", "G">>
      [] n = "G" -> <<"iF2">>
      [] OTHER -> <<>>

NodeParent(n) ==
    IF n = "DOC" THEN Null
    ELSE CHOOSE p \in Nodes : \E k \in 1..Len(NodeChildren(p)) : NodeChildren(p)[k] = n

\* figma.root.id and the keys a definition can carry (strings as sequences
\* of characters)
RootId == <<"d", "1">>
LocalKey == <<"d", "1", "_", "k">>
ExternalKey == <<"o", "_", "k">>

VARIABLES
    mainComponent,          \* instance id -> definition id or Null
    visible,                \* definition id -> BOOLEAN
    locked,                 \* definition id -> BOOLEAN
    key,                    \* definition id -> key string
    selection,              \* figma.currentPage.selection
    analysis,               \* the last analyzeSelection call: arguments and result
    currentAnalysisResult,  \* plugin state (code.ts): <<>> for null, <<result>> otherwise
    uiMessages,             \* messages posted to the UI
    batch,                  \* run id -> state of its processBatch call
    tokenCancelled,         \* run id -> isCancelled of the token made for it
    currentCancellationToken, \* run id of the plugin's current token, 0 for null
    xfer,                   \* run id -> state of its handleTransferComponents call
    pages,                  \* figma.root.children: name and children of each page
    currentPage,            \* figma.currentPage, as an index into pages
    history,                \* the history held by clientStorage
    progressTracker,        \* a ProgressTracker of its own
    layoutCall,             \* a calculateLayout call: arguments and result
    spacingCall,            \* a calculateOptimalSpacing call: arguments and result
    traversal,              \* a traverseNode call: the tree, the call stack, the visits
    throttled,              \* a function made by throttle: its closure and the clock
    settingsStore           \* the settings record held by clientStorage and the last call on it

sceneVars == <<mainComponent, visible, locked, key, selection>>
analyzerVars == <<analysis, currentAnalysisResult, uiMessages>>
batchVars == <<batch, tokenCancelled>>
transferVars == <<currentCancellationToken, xfer, pages, currentPage, history>>
\* the state of the units looked at on their own
unitVars == <<progressTracker, layoutCall, spacingCall, traversal, throttled, settingsStore>>
vars == <<sceneVars, analyzerVars, batchVars, transferVars, unitVars>>

\* the transfer requests of a behaviour, told apart by a run id
Runs == {1}

(***************************************************************************)
(* Traversal (traversal.ts)                                                *)
(***************************************************************************)
RECURSIVE PreOrder(_), PreOrderAll(_, _)
\* the sequence of nodes traverseNode hands to its callback
PreOrder(n) == <<n>> \o PreOrderAll(NodeChildren(n), 1)
PreOrderAll(ch, k) ==
    IF k > Len(ch) THEN <<>> ELSE PreOrder(ch[k]) \o PreOrderAll(ch, k + 1)

TraverseNode(n) == PreOrder(n)

FindNodesByType(n, t) == SelectSeq(TraverseNode(n), LAMBDA m : NodeType(m) = t)

\* mutant: only the direct children are searched
FindComponentInstances_Shallow(n) ==
    SelectSeq(NodeChildren(n), LAMBDA m : NodeType(m) = "INSTANCE")

FindComponentInstances(n) == FindNodesByType(n, "INSTANCE")

GetMainComponent(i) == mainComponent[i]

RECURSIVE GetNodeDepthFrom(_, _)
GetNodeDepthFrom(current, depth) ==
    IF current = Null \/ NodeType(current) = "DOCUMENT" THEN depth
    ELSE GetNodeDepthFrom(NodeParent(current), depth + 1)
GetNodeDepth(n) == GetNodeDepthFrom(NodeParent(n), 0)

(***************************************************************************)
(* Validator (validator.ts)                                                *)
(***************************************************************************)
StartsWith(s, p) == Len(p) <= Len(s) /\ SubSeq(s, 1, Len(p)) = p

IsLocalComponent(c) == StartsWith(key[c], RootId)

Warning(t, id) == [type |-> t, componentId |-> id]

ValidateSelection(sel) ==
    IF Len(sel) = 0 THEN <<Warning("MISSING_DEFINITION", Null)>> ELSE <<>>

ValidateComponent(c) ==
    (IF ~IsLocalComponent(c) THEN <<Warning("EXTERNAL_DEPENDENCY", c)>> ELSE <<>>)
    \o (IF locked[c] THEN <<Warning("LOCKED_COMPONENT", c)>> ELSE <<>>)
    \o (IF ~visible[c] THEN <<Warning("HIDDEN_COMPONENT", c)>> ELSE <<>>)

\* NoWarning (null) when the instance has a main component
NoWarning == Warning("none", Null)

ValidateMainComponent(i) ==
    IF mainComponent[i] = Null THEN Warning("MISSING_DEFINITION", i) ELSE NoWarning

(***************************************************************************)
(* Dependency analyzer (analyzer.ts)                                       *)
(*                                                                         *)
(* The component map is a JavaScript Map: a sequence of ComponentInfo      *)
(* records in insertion order, at most one per key.                        *)
(***************************************************************************)
MapHas(m, id) == \E k \in 1..Len(m) : m[k].id = id

MapIndex(m, id) == CHOOSE k \in 1..Len(m) : m[k].id = id

MapGet(m, id) == m[MapIndex(m, id)]

MapSet(m, id, info) ==
    IF MapHas(m, id) THEN [m EXCEPT ![MapIndex(m, id)] = info] ELSE Append(m, info)

MapKeys(m) == {m[k].id : k \in 1..Len(m)}

\* info.children.push(childId) on the ComponentInfo object held by the map
PushChild(m, id, childId) ==
    [m EXCEPT ![MapIndex(m, id)].children = Append(@, childId)]

SeqContains(s, x) == \E k \in 1..Len(s) : s[k] = x

\* mutant: only processComponentSet looks the definition up in the map
AlreadyProcessed_SetsOnly(m, c) == NodeType(c) = "COMPONENT_SET" /\ MapHas(m, c)

\* the early returns of processComponent / processComponentSet
\* mutant: the map is not consulted
AlreadyProcessed_Never(m, c) == FALSE

AlreadyProcessed(m, c) == MapHas(m, c)

\* mutant: external definitions are never skipped
SkipExternal_Never(local, o) == FALSE

SkipExternal(local, o) == ~local /\ ~o.includeExternal

\* mutant: the option is read inverted
SkipHidden_Inverted(c, o) == ~visible[c] /\ o.includeHidden

SkipHidden(c, o) == ~visible[c] /\ ~o.includeHidden

\* mutant: the info does not take over the lock of the node
ComponentInfo_Unlocked(c, t, local, vc) ==
    [id |-> c, type |-> t, isLocal |-> local, isHidden |-> ~visible[c],
     isLocked |-> FALSE, variantCount |-> vc, children |-> <<>>,
     level |-> GetNodeDepth(c)]

ComponentInfo(c, t, local, vc) ==
    [id |-> c, type |-> t, isLocal |-> local, isHidden |-> ~visible[c],
     isLocked |-> locked[c], variantCount |-> vc, children |-> <<>>,
     level |-> GetNodeDepth(c)]

\* The state the recursion threads through: the component map, the warnings,
\* the processed instances, and a record of what was done (calls of
\* componentMap.set per id, ids handed to processComponent[Set]).  threw is
\* the RangeError of a recursion deeper than the stack allows.
EmptyAnalysis ==
    [components |-> <<>>, warnings |-> <<>>, processedInstances |-> {},
     setCalls |-> [d \in Definitions |-> 0], reached |-> {}, threw |-> FALSE]

RECURSIVE ProcessComponent(_, _, _, _), ProcessComponentSet(_, _, _, _)
RECURSIVE NestedInComponent(_, _, _, _, _, _), NestedInVariant(_, _, _, _, _, _)
RECURSIVE VariantsOf(_, _, _, _, _, _)

ProcessDefinition(m, st, o, depth) ==
    IF NodeType(m) = "COMPONENT" THEN ProcessComponent(m, st, o, depth)
    ELSE IF NodeType(m) = "COMPONENT_SET" THEN ProcessComponentSet(m, st, o, depth)
    ELSE st

ProcessComponent(c, st0, o, depth) ==
    IF depth > MaxStack THEN [st0 EXCEPT !.threw = TRUE]
    ELSE
    LET st == [st0 EXCEPT !.reached = @ \cup {c}]
        local == IsLocalComponent(c)
    IN  IF AlreadyProcessed(st.components, c) THEN st
        ELSE IF SkipExternal(local, o) THEN st
        ELSE IF SkipHidden(c, o) THEN st
        ELSE
          LET st1 == [st EXCEPT
                        !.warnings = @ \o ValidateComponent(c),
                        !.components = MapSet(@, c, ComponentInfo(c, "COMPONENT", local, 0)),
                        !.setCalls[c] = @ + 1]
          IN  NestedInComponent(c, FindComponentInstances(c), 1, st1, o, depth)

\* the loop over nestedInstances of processComponent
NestedInComponent(c, insts, k, st, o, depth) ==
    IF st.threw \/ k > Len(insts) THEN st
    ELSE
      LET mainComp == GetMainComponent(insts[k])
      IN  IF mainComp # Null
          THEN LET st1 == [st EXCEPT !.components = PushChild(@, c, mainComp)]
               IN  NestedInComponent(c, insts, k + 1,
                                     ProcessDefinition(mainComp, st1, o, depth + 1), o, depth)
          ELSE NestedInComponent(c, insts, k + 1, st, o, depth)

ProcessComponentSet(c, st0, o, depth) ==
    IF depth > MaxStack THEN [st0 EXCEPT !.threw = TRUE]
    ELSE
    LET st == [st0 EXCEPT !.reached = @ \cup {c}]
        local == IsLocalComponent(c)
    IN  IF AlreadyProcessed(st.components, c) THEN st
        ELSE IF SkipExternal(local, o) THEN st
        ELSE IF SkipHidden(c, o) THEN st
        ELSE
          LET st1 == [st EXCEPT
                        !.warnings = @ \o ValidateComponent(c),
                        !.components = MapSet(@, c,
                            ComponentInfo(c, "COMPONENT_SET", local, Len(NodeChildren(c)))),
                        !.setCalls[c] = @ + 1]
          IN  VariantsOf(c, NodeChildren(c), 1, st1, o, depth)

\* the loop over componentSet.children of processComponentSet
VariantsOf(c, variants, v, st, o, depth) ==
    IF st.threw \/ v > Len(variants) THEN st
    ELSE IF NodeType(variants[v]) = "COMPONENT"
    THEN VariantsOf(c, variants, v + 1,
                    NestedInVariant(c, FindComponentInstances(variants[v]), 1, st, o, depth),
                    o, depth)
    ELSE VariantsOf(c, variants, v + 1, st, o, depth)

\* the loop over the nestedInstances of one variant
NestedInVariant(c, insts, k, st, o, depth) ==
    IF st.threw \/ k > Len(insts) THEN st
    ELSE
      LET mainComp == GetMainComponent(insts[k])
      IN  IF mainComp # Null /\ ~SeqContains(MapGet(st.components, c).children, mainComp)
          THEN LET st1 == [st EXCEPT !.components = PushChild(@, c, mainComp)]
               IN  NestedInVariant(c, insts, k + 1,
                                   ProcessDefinition(mainComp, st1, o, depth + 1), o, depth)
          ELSE NestedInVariant(c, insts, k + 1, st, o, depth)

ProcessInstance(i, st, o) ==
    IF i \in st.processedInstances THEN st
    ELSE
      LET st1 == [st EXCEPT !.processedInstances = @ \cup {i}]
          warning == ValidateMainComponent(i)
      IN  IF warning # NoWarning
          THEN [st1 EXCEPT !.warnings = Append(@, warning)]
          ELSE ProcessDefinition(mainComponent[i], st1, o, 1)

\* the traverseNode callback of processNode over the pre-order of a container
RECURSIVE InstancesUnder(_, _, _, _)
InstancesUnder(nodes, k, st, o) ==
    IF st.threw \/ k > Len(nodes) THEN st
    ELSE IF NodeType(nodes[k]) = "INSTANCE" /\ nodes[k] \notin st.processedInstances
    THEN InstancesUnder(nodes, k + 1, ProcessInstance(nodes[k], st, o), o)
    ELSE InstancesUnder(nodes, k + 1, st, o)

HasChildrenProperty(n) == NodeType(n) \in {"FRAME", "GROUP", "PAGE"}

ProcessNode(n, st, o) ==
    IF NodeType(n) = "COMPONENT" THEN ProcessComponent(n, st, o, 1)
    ELSE IF NodeType(n) = "COMPONENT_SET" THEN ProcessComponentSet(n, st, o, 1)
    ELSE IF NodeType(n) = "INSTANCE" THEN ProcessInstance(n, st, o)
    ELSE IF HasChildrenProperty(n) THEN InstancesUnder(TraverseNode(n), 1, st, o)
    ELSE st

RECURSIVE ProcessSelection(_, _, _, _)
ProcessSelection(sel, k, st, o) ==
    IF st.threw \/ k > Len(sel) THEN st
    ELSE ProcessSelection(sel, k + 1, ProcessNode(sel[k], st, o), o)

(***************************************************************************)
(* The dependency forest.  A DependencyNode is [component, dependencies],  *)
(* component being the id of the ComponentInfo it wraps.                   *)
(***************************************************************************)
AllChildIds(m) == UNION {{m[k].children[j] : j \in 1..Len(m[k].children)} : k \in 1..Len(m)}

\* the null buildDependencyNode returns for an id that is not in the map
NoNode == [component |-> Null, dependencies |-> <<>>]

RECURSIVE BuildDependencyNode(_, _, _), BuildDependencies(_, _, _, _, _)
\* returns [node, processed]
BuildDependencyNode(componentId, m, processed) ==
    IF ~MapHas(m, componentId) THEN [node |-> NoNode, processed |-> processed]
    ELSE
      LET r == BuildDependencies(MapGet(m, componentId).children, 1, m,
                                 processed \cup {componentId}, <<>>)
      IN  [node |-> [component |-> componentId, dependencies |-> r.deps],
           processed |-> r.processed]

\* the loop over component.children of buildDependencyNode
BuildDependencies(children, k, m, processed, deps) ==
    IF k > Len(children) THEN [deps |-> deps, processed |-> processed]
    ELSE IF children[k] \notin processed
    THEN LET r == BuildDependencyNode(children[k], m, processed)
         IN  BuildDependencies(children, k + 1, m, r.processed,
                               IF r.node # NoNode THEN Append(deps, r.node) ELSE deps)
    ELSE BuildDependencies(children, k + 1, m, processed, deps)

\* a component of the map is a root when no entry lists it as a child
IsRoot(m, id) == id \notin AllChildIds(m)

RECURSIVE BuildRoots(_, _, _, _)
BuildRoots(m, k, processed, tree) ==
    IF k > Len(m) THEN tree
    ELSE IF IsRoot(m, m[k].id) /\ m[k].id \notin processed
    THEN LET r == BuildDependencyNode(m[k].id, m, processed)
         IN  BuildRoots(m, k + 1, r.processed,
                        IF r.node # NoNode THEN Append(tree, r.node) ELSE tree)
    ELSE BuildRoots(m, k + 1, processed, tree)

BuildDependencyTree(m) == BuildRoots(m, 1, {}, <<>>)

\* mutant: main and child-only told apart by the type of the entry
CalculateStats_ByType(m) ==
    [totalComponents |-> Len(m),
     mainComponents |-> Cardinality({k \in 1..Len(m) : m[k].type = "COMPONENT"}),
     childComponents |-> Cardinality({k \in 1..Len(m) : m[k].type # "COMPONENT"}),
     variantSets |-> Cardinality({k \in 1..Len(m) : m[k].type = "COMPONENT_SET"}),
     externalComponents |-> Cardinality({k \in 1..Len(m) : ~m[k].isLocal}),
     hiddenComponents |-> Cardinality({k \in 1..Len(m) : m[k].isHidden}),
     lockedComponents |-> Cardinality({k \in 1..Len(m) : m[k].isLocked})]

CalculateStats(m) ==
    [totalComponents |-> Len(m),
     mainComponents |-> Cardinality({k \in 1..Len(m) : Len(m[k].children) # 0}),
     childComponents |-> Cardinality({k \in 1..Len(m) : Len(m[k].children) = 0}),
     variantSets |-> Cardinality({k \in 1..Len(m) : m[k].type = "COMPONENT_SET"}),
     externalComponents |-> Cardinality({k \in 1..Len(m) : ~m[k].isLocal}),
     hiddenComponents |-> Cardinality({k \in 1..Len(m) : m[k].isHidden}),
     lockedComponents |-> Cardinality({k \in 1..Len(m) : m[k].isLocked})]

CreateEmptyResult(warnings) ==
    [components |-> <<>>, dependencyTree |-> <<>>, warnings |-> warnings,
     stats |-> CalculateStats(<<>>), threw |-> FALSE,
     setCalls |-> EmptyAnalysis.setCalls, reached |-> {}]

DefaultOptions == [includeHidden |-> FALSE, includeExternal |-> FALSE]

\* analyzeSelection(selection, options); threw: the call ended in a RangeError
AnalyzeSelection(sel, o) ==
    IF Len(sel) = 0 THEN CreateEmptyResult(ValidateSelection(sel))
    ELSE
      LET st == ProcessSelection(sel, 1,
                    [EmptyAnalysis EXCEPT !.warnings = ValidateSelection(sel)], o)
      IN  [components |-> st.components,
           dependencyTree |-> IF st.threw THEN <<>> ELSE BuildDependencyTree(st.components),
           warnings |-> st.warnings,
           stats |-> CalculateStats(st.components),
           threw |-> st.threw,
           setCalls |-> st.setCalls, reached |-> st.reached]

(***************************************************************************)
(* Batch runner (batcher.ts).  A processBatch call is a record: pc is the  *)
(* place the call has reached, i and j the loop counters, calls the        *)
(* (item, index) pairs handed to the processor, progress the arguments of  *)
(* the onProgress calls.                                                   *)
(*   loop    - top of the outer for: loop test and cancellation check      *)
(*   item    - inside the batch, before the next processor call            *)
(*   await   - suspended in `await processor(...)`                         *)
(*   yield   - suspended in `await delay(0)`                               *)
(*   resolved / rejected - the promise is settled                          *)
(***************************************************************************)
Min(a, b) == IF a < b THEN a ELSE b

CancelledError == "Operation cancelled"

NoBatch == [pc |-> "none"]

PBStart(items, batchSize, hasToken) ==
    [pc |-> "loop", items |-> items, batchSize |-> batchSize, hasToken |-> hasToken,
     i |-> 0, j |-> 0, results |-> <<>>, calls |-> <<>>, progress |-> <<>>,
     yields |-> 0, error |-> ""]

PBTotal(pb) == Len(pb.items)

\* batch = items.slice(i, Math.min(i + batchSize, total))
PBBatchLen(pb) == Min(pb.i + pb.batchSize, PBTotal(pb)) - pb.i

\* mutant: the token is not looked at
PBCancelCheck_Never(pb, cancelled) == FALSE

\* cancellationToken?.isCancelled
PBCancelCheck(pb, cancelled) == pb.hasToken /\ cancelled

\* the loop test i < total and the cancellation check
PBLoop(pb, cancelled) ==
    IF pb.i >= PBTotal(pb) THEN [pb EXCEPT !.pc = "resolved"]
    ELSE IF PBCancelCheck(pb, cancelled)
    THEN [pb EXCEPT !.pc = "rejected", !.error = CancelledError]
    ELSE [pb EXCEPT !.pc = "item", !.j = 0]

\* mutant: the index handed over is the position inside the batch
PBCall_BatchIndex(pb) ==
    [pb EXCEPT !.pc = "await",
               !.calls = Append(@, [item |-> pb.items[pb.i + pb.j + 1], index |-> pb.j])]

\* processor(batch[j], i + j) is called
PBCall(pb) ==
    [pb EXCEPT !.pc = "await",
               !.calls = Append(@, [item |-> pb.items[pb.i + pb.j + 1],
                                    index |-> pb.i + pb.j])]

\* the awaited processor call returns result, or throws error
PBReturn(pb, result) ==
    [pb EXCEPT !.pc = "item", !.results = Append(@, result), !.j = @ + 1]

PBThrow(pb, error) == [pb EXCEPT !.pc = "rejected", !.error = error]

\* mutant: the count reported is not capped by total
PBProgress_Uncapped(pb, hasOnProgress) ==
    LET reported == IF hasOnProgress
                    THEN Append(pb.progress, [processed |-> pb.i + pb.batchSize,
                                              total |-> PBTotal(pb)])
                    ELSE pb.progress
    IN  IF pb.i + pb.batchSize < PBTotal(pb)
        THEN [pb EXCEPT !.pc = "yield", !.progress = reported, !.yields = @ + 1]
        ELSE [pb EXCEPT !.pc = "loop", !.progress = reported, !.i = @ + pb.batchSize]

\* mutant: the call yields after every batch, the last one included
PBProgress_AlwaysYields(pb, hasOnProgress) ==
    LET done == Min(pb.i + pb.batchSize, PBTotal(pb))
        reported == IF hasOnProgress
                    THEN Append(pb.progress, [processed |-> done, total |-> PBTotal(pb)])
                    ELSE pb.progress
    IN  [pb EXCEPT !.pc = "yield", !.progress = reported, !.yields = @ + 1]

\* after the batch: onProgress, then the yield when more items remain
PBProgress(pb, hasOnProgress) ==
    LET done == Min(pb.i + pb.batchSize, PBTotal(pb))
        reported == IF hasOnProgress
                    THEN Append(pb.progress, [processed |-> done, total |-> PBTotal(pb)])
                    ELSE pb.progress
    IN  IF pb.i + pb.batchSize < PBTotal(pb)
        THEN [pb EXCEPT !.pc = "yield", !.progress = reported, !.yields = @ + 1]
        ELSE [pb EXCEPT !.pc = "loop", !.progress = reported, !.i = @ + pb.batchSize]

\* the timer of delay(0) fires
PBResume(pb) == [pb EXCEPT !.pc = "loop", !.i = @ + pb.batchSize]

(***************************************************************************)
(* Pages of the document.  The document starts with the page the scene is  *)
(* on; a page named Transfer may exist already.                            *)
(***************************************************************************)
NoTransfer == [pc |-> "idle"]

\* new ProgressTracker()
NewTracker == [phase |-> "analyzing", processed |-> 0, total |-> 0]

NoCall == [pc |-> "none"]

NoUnits ==
    /\ progressTracker = NewTracker /\ layoutCall = NoCall /\ spacingCall = NoCall
    /\ traversal = NoCall
    /\ throttled = NoCall
    /\ settingsStore = NoCall

ScenePage == [name |-> "Page 1", children |-> NodeChildren("P")]

NoTransfers ==
    /\ currentCancellationToken = 0
    /\ xfer = [r \in Runs |-> NoTransfer]
    /\ pages = <<ScenePage>>
    /\ currentPage = 1
    /\ history = <<>>

\* figma.root.children.find((page) => page.name === 'Transfer'); 0: undefined
FindTransferPage(pgs) ==
    IF \E k \in 1..Len(pgs) : pgs[k].name = "Transfer"
    THEN CHOOSE k \in 1..Len(pgs) :
            /\ pgs[k].name = "Transfer"
            /\ \A m \in 1..(k - 1) : pgs[m].name # "Transfer"
    ELSE 0

\* child.remove(): the child is spliced out of its parent's children
RemoveAt(children, k) == SubSeq(children, 1, k - 1) \o SubSeq(children, k + 1, Len(children))

\* children.forEach((child) => child.remove()) from index k on: forEach
\* walks the array that remove() is splicing, so after removing the child
\* at k it goes on with the one that then stands at k + 1
RECURSIVE ForEachRemove(_, _)
ForEachRemove(children, k) ==
    IF k > Len(children) THEN children
    ELSE ForEachRemove(RemoveAt(children, k), k + 1)

\* the existing page is returned, without a call of figma.createPage
ReusesPage(pgs, settings) ==
    /\ FindTransferPage(pgs) # 0
    /\ settings.transferPageBehavior \in {"replace", "append"}

\* findOrCreateTransferPage: the pages afterwards and the page returned
FindOrCreateTransferPage(pgs, settings) ==
    LET existingPage == FindTransferPage(pgs)
    IN  IF existingPage # 0 /\ settings.transferPageBehavior = "replace"
        THEN [pages |-> [pgs EXCEPT ![existingPage].children = ForEachRemove(@, 1)],
              page |-> existingPage]
        ELSE IF existingPage # 0 /\ settings.transferPageBehavior = "append"
        THEN [pages |-> pgs, page |-> existingPage]
        ELSE IF existingPage # 0 /\ settings.transferPageBehavior = "timestamp"
        THEN [pages |-> Append(pgs, [name |-> "Transfer 2026-01-01", children |-> <<>>]),
              page |-> Len(pgs) + 1]
        ELSE [pages |-> Append(pgs, [name |-> "Transfer", children |-> <<>>]),
              page |-> Len(pgs) + 1]

\* mutant: the node is attached twice
AppendChild_Twice(pgs, page, node) ==
    [pgs EXCEPT ![page].children = Append(Append(@, node), node)]

\* page.appendChild(node)
AppendChild(pgs, page, node) == [pgs EXCEPT ![page].children = Append(@, node)]

(***************************************************************************)
(* Progress tracker (collector.ts); times are left out.                    *)
(***************************************************************************)
\* Math.round((processed / total) * 100), 0 when total is 0
Percentage(processed, total) ==
    IF total > 0 THEN (200 * processed + total) \div (2 * total) ELSE 0

GetProgress(tracker) ==
    [phase |-> tracker.phase, percentage |-> Percentage(tracker.processed, tracker.total),
     processed |-> tracker.processed, total |-> tracker.total]

\* update(): the callback given by handleTransferComponents posts the progress
TrackerUpdate(msgs, t, tracker) ==
    Append(msgs, [type |-> "TRANSFER_PROGRESS", run |-> t,
                  progress |-> GetProgress(tracker)])

TrackerStart(total, phase) == [phase |-> phase, processed |-> 0, total |-> total]

TrackerSetPhase(tracker, phase) == [tracker EXCEPT !.phase = phase]

TrackerUpdateProgress(tracker, processed) == [tracker EXCEPT !.processed = processed]

\* mutant: a clone is counted twice
TrackerIncrement_Twice(tracker) == [tracker EXCEPT !.processed = @ + 2]

TrackerIncrement(tracker) == [tracker EXCEPT !.processed = @ + 1]

TrackerComplete(tracker) == [tracker EXCEPT !.processed = tracker.total]

(***************************************************************************)
(* The batch specification: one processBatch call over items 10, 20, ...   *)
(* with a processor that doubles its item, completes at once or after a    *)
(* suspension, and may throw; the token may be cancelled by another task   *)
(* whenever the call is suspended.                                         *)
(***************************************************************************)
ItemsOf(n) == [k \in 1..n |-> 10 * k]

NoAnalysis == [via |-> "none"]

FixedScene ==
    /\ mainComponent = [i \in Instances |->
                          CASE i \in {"iA1", "iA2", "iF1", "iF2"} -> "B"
                            [] i \in {"iB1", "iV1", "iV2"} -> "C"
                            [] OTHER -> "V1"]
    /\ visible = [d \in Definitions |-> TRUE]
    /\ locked = [d \in Definitions |-> FALSE]
    /\ key = [d \in Definitions |-> LocalKey]
    /\ selection = <<"A", "S">>

InitBatch ==
    /\ FixedScene
    /\ analysis = NoAnalysis
    /\ currentAnalysisResult = <<>>
    /\ uiMessages = <<>>
    /\ \E n \in 0..MaxItems, bs \in 1..MaxBatch, hasToken \in BOOLEAN :
         batch = [r \in Runs |-> IF r = 1 THEN PBStart(ItemsOf(n), bs, hasToken)
                                 ELSE NoBatch]
    /\ tokenCancelled \in [Runs -> BOOLEAN]
    /\ \A r \in Runs : r # 1 => ~tokenCancelled[r]
    /\ NoTransfers
    /\ NoUnits

BatchLoop ==
    /\ UNCHANGED unitVars
    /\ batch[1].pc = "loop"
    /\ batch' = [batch EXCEPT ![1] = PBLoop(@, tokenCancelled[1])]
    /\ UNCHANGED <<sceneVars, analyzerVars, tokenCancelled, transferVars>>

\* the processor is called and completes without suspending
BatchItemSync ==
    /\ UNCHANGED unitVars
    /\ batch[1].pc = "item" /\ batch[1].j < PBBatchLen(batch[1])
    /\ \/ batch' = [batch EXCEPT ![1] = PBReturn(PBCall(@), 2 * @.items[@.i + @.j + 1])]
       \/ batch' = [batch EXCEPT ![1] = PBThrow(PBCall(@), "processor failed")]
    /\ UNCHANGED <<sceneVars, analyzerVars, tokenCancelled, transferVars>>

\* the processor is called and suspends
BatchItemAsync ==
    /\ UNCHANGED unitVars
    /\ batch[1].pc = "item" /\ batch[1].j < PBBatchLen(batch[1])
    /\ batch' = [batch EXCEPT ![1] = PBCall(@)]
    /\ UNCHANGED <<sceneVars, analyzerVars, tokenCancelled, transferVars>>

\* the suspended processor call settles
BatchItemSettles ==
    /\ UNCHANGED unitVars
    /\ batch[1].pc = "await"
    /\ \/ batch' = [batch EXCEPT ![1] = PBReturn(@, 2 * @.items[@.i + @.j + 1])]
       \/ batch' = [batch EXCEPT ![1] = PBThrow(@, "processor failed")]
    /\ UNCHANGED <<sceneVars, analyzerVars, tokenCancelled, transferVars>>

BatchProgress ==
    /\ UNCHANGED unitVars
    /\ batch[1].pc = "item" /\ batch[1].j >= PBBatchLen(batch[1])
    /\ batch' = [batch EXCEPT ![1] = PBProgress(@, TRUE)]
    /\ UNCHANGED <<sceneVars, analyzerVars, tokenCancelled, transferVars>>

BatchResume ==
    /\ UNCHANGED unitVars
    /\ batch[1].pc = "yield"
    /\ batch' = [batch EXCEPT ![1] = PBResume(@)]
    /\ UNCHANGED <<sceneVars, analyzerVars, tokenCancelled, transferVars>>

\* token.cancel() by another task, while the call is suspended
BatchCancel ==
    /\ UNCHANGED unitVars
    /\ batch[1].pc \in {"await", "yield"}
    /\ batch[1].hasToken /\ ~tokenCancelled[1]
    /\ tokenCancelled' = [tokenCancelled EXCEPT ![1] = TRUE]
    /\ UNCHANGED <<sceneVars, analyzerVars, batch, transferVars>>

NextBatch ==
    \/ BatchLoop
    \/ BatchItemSync
    \/ BatchItemAsync
    \/ BatchItemSettles
    \/ BatchProgress
    \/ BatchResume
    \/ BatchCancel

SpecBatch == InitBatch /\ [][NextBatch]_vars

(***************************************************************************)
(* The analysis specification: the scene and the selection are drawn in    *)
(* the initial state, analyzeSelection is applied to them either directly  *)
(* or through the plugin's ANALYZE_SELECTION handler.                      *)
(***************************************************************************)
Selectable == {"A", "S", "F", "X"}

\* a selection holds a node at most once
Selections ==
    UNION {{sel \in [1..n -> Selectable] :
              \A j, k \in 1..n : sel[j] = sel[k] => j = k} : n \in 0..MaxSel}

Normal == [local |-> TRUE, visible |-> TRUE, locked |-> FALSE]
External == [local |-> FALSE, visible |-> TRUE, locked |-> FALSE]
Hidden == [local |-> TRUE, visible |-> FALSE, locked |-> FALSE]
Locked == [local |-> TRUE, visible |-> TRUE, locked |-> TRUE]

Profiles ==
    {p \in [Definitions -> {Normal, External, Hidden, Locked}] :
        /\ p["A"] \in {Normal, External, Hidden, Locked}
        /\ p["B"] = Normal
        /\ p["C"] \in {Normal, External}
        /\ p["S"] \in {Normal, Hidden}
        /\ p["V1"] = Normal /\ p["V2"] = Normal}

Shapes ==
    {f \in [Instances -> Definitions \cup {Null}] :
        /\ f["iA1"] \in {Null, "A", "B"}
        /\ f["iA2"] = "B"
        /\ f["iB1"] \in {"A", "C"}
        /\ f["iV1"] = "C"
        /\ f["iV2"] \in {Null, "C"}
        /\ f["iF1"] \in {Null, "A"}
        /\ f["iF2"] = "A"
        /\ f["X"] = (IF f["iF1"] = Null THEN Null ELSE "V1")}

InitAnalyze ==
    /\ mainComponent \in Shapes
    /\ \E p \in Profiles :
         /\ visible = [d \in Definitions |-> p[d].visible]
         /\ locked = [d \in Definitions |-> p[d].locked]
         /\ key = [d \in Definitions |-> IF p[d].local THEN LocalKey ELSE ExternalKey]
    /\ selection \in Selections
    /\ analysis = NoAnalysis
    /\ currentAnalysisResult = <<>>
    /\ uiMessages = <<>>
    /\ batch = [r \in Runs |-> NoBatch]
    /\ tokenCancelled = [r \in Runs |-> FALSE]
    /\ NoTransfers
    /\ NoUnits

\* a direct call analyzeSelection(selection, options), as the tests make it
CallAnalyzeSelection(o) ==
    /\ UNCHANGED unitVars
    /\ analysis.via = "none"
    /\ analysis' = [via |-> "call", selection |-> selection, options |-> o,
                    result |-> AnalyzeSelection(selection, o)]
    /\ UNCHANGED <<sceneVars, currentAnalysisResult, uiMessages, batchVars, transferVars>>

\* handleAnalyzeSelection (code.ts); includeHidden is what loadSettings returns
HandleAnalyzeSelection(includeHidden) ==
    /\ UNCHANGED unitVars
    /\ analysis.via = "none"
    /\ IF Len(selection) = 0
       THEN /\ uiMessages' = Append(uiMessages, [type |-> "ANALYSIS_ERROR"])
            /\ analysis' = [via |-> "handler-empty"]
            /\ UNCHANGED currentAnalysisResult
       ELSE LET o == [includeHidden |-> includeHidden, includeExternal |-> FALSE]
                result == AnalyzeSelection(selection, o)
            IN  IF result.threw
                THEN /\ uiMessages' = Append(uiMessages, [type |-> "ANALYSIS_ERROR"])
                     /\ analysis' = [via |-> "handler", selection |-> selection,
                                     options |-> o, result |-> result]
                     /\ UNCHANGED currentAnalysisResult
                ELSE /\ currentAnalysisResult' = <<result>>
                     /\ uiMessages' = Append(uiMessages, [type |-> "ANALYSIS_COMPLETE"])
                     /\ analysis' = [via |-> "handler", selection |-> selection,
                                     options |-> o, result |-> result]
    /\ UNCHANGED <<sceneVars, batchVars, transferVars>>

NextAnalyze ==
    \/ \E o \in [includeHidden : BOOLEAN, includeExternal : BOOLEAN] : CallAnalyzeSelection(o)
    \/ \E h \in BOOLEAN : HandleAnalyzeSelection(h)

Spec == InitAnalyze /\ [][NextAnalyze]_vars

Analyzed == analysis.via \in {"call", "handler"}

Result == analysis.result
Options == analysis.options
Returned == Analyzed /\ ~Result.threw
ResultKeys == MapKeys(Result.components)
WarningsAbout(d) ==
    {k \in 1..Len(Result.warnings) : Result.warnings[k].componentId = d}

\* a definition passes the filters of the analysis
Eligible(d, o) ==
    /\ IsLocalComponent(d) \/ o.includeExternal
    /\ visible[d] \/ o.includeHidden

(***************************************************************************)
(* The dependency closure of a selection, by its definition: the           *)
(* definitions selected or instantiated in the selection, and every        *)
(* definition an instance inside one of them resolves to.                  *)
(***************************************************************************)
SeqRange(s) == {s[k] : k \in 1..Len(s)}

\* the instances the selection itself holds: selected directly or lying
\* inside a selected container
SelectionInstances(sel) ==
    {n \in Instances : \E k \in 1..Len(sel) :
        \/ sel[k] = n
        \/ /\ HasChildrenProperty(sel[k])
           /\ n \in SeqRange(PreOrder(sel[k]))}

InstancesInside(d) ==
    IF NodeType(d) = "COMPONENT" THEN {n \in Instances : n \in SeqRange(PreOrder(d))}
    ELSE {n \in Instances : \E v \in SeqRange(NodeChildren(d)) :
            NodeType(v) = "COMPONENT" /\ n \in SeqRange(PreOrder(v))}

Resolved(insts) == {mainComponent[i] : i \in insts} \ {Null}

RECURSIVE ClosureFrom(_)
ClosureFrom(ds) ==
    LET more == ds \cup UNION {Resolved(InstancesInside(d)) : d \in ds}
    IN  IF more = ds THEN ds ELSE ClosureFrom(more)

DependencyClosure(sel) ==
    ClosureFrom({d \in Definitions : d \in SeqRange(sel)}
                \cup Resolved(SelectionInstances(sel)))

AllPlain(ds) == \A d \in ds : IsLocalComponent(d) /\ visible[d] /\ ~locked[d]

(***************************************************************************)
(* C1: after analyzeSelection the component map holds one entry per        *)
(* definition id, each entered by exactly one componentMap.set, and its    *)
(* size is the number of distinct eligible definitions that were reached,  *)
(* however many instances lead to them.                                    *)
(***************************************************************************)
C1_OneEntryPerDefinition ==
    Returned =>
      /\ \A j, k \in 1..Len(Result.components) :
           Result.components[j].id = Result.components[k].id => j = k
      /\ \A d \in Definitions :
           Result.setCalls[d] = IF d \in ResultKeys THEN 1 ELSE 0
      /\ ResultKeys = {d \in Result.reached : Eligible(d, Options)}
      /\ Len(Result.components) =
           Cardinality({d \in Result.reached : Eligible(d, Options)})

\* A is reached through both instances of the selected frame and through
\* the instance inside B, and is entered in the map
C1_Witness ==
    /\ Returned
    /\ analysis.selection = <<"F", "X">>
    /\ mainComponent["iF1"] = "A" /\ mainComponent["iB1"] = "A"
    /\ "A" \in ResultKeys /\ "B" \in ResultKeys /\ "V1" \in ResultKeys

(***************************************************************************)
(* C2 as stated: when every definition of the dependency closure is local, *)
(* visible and unlocked, the map keys are exactly the closure,             *)
(* totalComponents is its size, externalComponents is 0 and there is no    *)
(* warning.                                                                *)
(***************************************************************************)
C2_ClosureResult ==
    /\ ResultKeys = DependencyClosure(analysis.selection)
    /\ Result.stats.totalComponents = Cardinality(DependencyClosure(analysis.selection))
    /\ Result.stats.externalComponents = 0
    /\ Result.warnings = <<>>

C2_Original ==
    (Returned /\ AllPlain(DependencyClosure(analysis.selection))) => C2_ClosureResult

(***************************************************************************)
(* C2 amended: the same, for a non-empty selection in which every instance *)
(* selected directly or lying inside a selected container has a main       *)
(* definition.                                                             *)
(***************************************************************************)
C2_ClosureOfSoundSelection ==
    (/\ Returned
     /\ AllPlain(DependencyClosure(analysis.selection))
     /\ Len(analysis.selection) > 0
     /\ \A i \in SelectionInstances(analysis.selection) : mainComponent[i] # Null)
    => C2_ClosureResult

\* the closure of the selected component A is {A, B, C}, reached through
\* nested instances two levels deep
C2_Witness ==
    /\ Returned
    /\ analysis.selection = <<"A">>
    /\ AllPlain({"A", "B", "C"})
    /\ DependencyClosure(analysis.selection) = {"A", "B", "C"}
    /\ ResultKeys = {"A", "B", "C"}

(***************************************************************************)
(* C3: with includeExternal = false every entry of the result is local and *)
(* stats.externalComponents is 0; the ANALYZE_SELECTION handler always     *)
(* analyzes with includeExternal = false.                                  *)
(***************************************************************************)
C3_LocalOnly ==
    /\ (Returned /\ ~Options.includeExternal) =>
         /\ \A k \in 1..Len(Result.components) : Result.components[k].isLocal
         /\ Result.stats.externalComponents = 0
    /\ analysis.via = "handler" => ~Options.includeExternal
    /\ \A r \in SeqRange(currentAnalysisResult) :
         \A k \in 1..Len(r.components) : r.components[k].isLocal

\* the handler met the external definition C below the local A and B
C3_Witness ==
    /\ analysis.via = "handler" /\ Returned
    /\ ~IsLocalComponent("C") /\ "C" \in Result.reached
    /\ "A" \in ResultKeys /\ "B" \in ResultKeys
    /\ currentAnalysisResult = <<Result>>

(***************************************************************************)
(* C4: analyzing a selection of one external component with the default    *)
(* options returns an empty map and exactly one EXTERNAL_DEPENDENCY        *)
(* warning, which refers to that component.                                *)
(***************************************************************************)
C4_ExternalSelectionWarns ==
    (/\ Returned /\ analysis.via = "call"
     /\ analysis.selection = <<"A">> /\ ~IsLocalComponent("A")
     /\ Options = DefaultOptions)
    => /\ Len(Result.components) = 0
       /\ Cardinality({k \in 1..Len(Result.warnings) :
             Result.warnings[k] = Warning("EXTERNAL_DEPENDENCY", "A")}) = 1

(***************************************************************************)
(* C5: a hidden local definition the analysis reaches is in the map if and *)
(* only if includeHidden is true; with includeHidden false no warning      *)
(* refers to it.                                                           *)
(***************************************************************************)
C5_HiddenFilter ==
    Returned =>
      \A d \in Result.reached :
        (IsLocalComponent(d) /\ ~visible[d]) =>
          /\ d \in ResultKeys <=> Options.includeHidden
          /\ ~Options.includeHidden => WarningsAbout(d) = {}

\* the hidden set S is reached and left out without a warning, while the
\* variant V1 is collected
C5_Witness ==
    /\ Returned /\ ~Options.includeHidden
    /\ analysis.selection = <<"S", "X">>
    /\ ~visible["S"] /\ "S" \in Result.reached /\ "S" \notin ResultKeys
    /\ "V1" \in ResultKeys

(***************************************************************************)
(* C6: every ComponentInfo of the map occurs at exactly one position of    *)
(* the dependency forest, and no component listed in another entry's       *)
(* children is a root, whatever the shape of the dependency graph.         *)
(***************************************************************************)
RECURSIVE CountInNode(_, _), CountInForest(_, _, _)
CountInNode(node, id) ==
    (IF node.component = id THEN 1 ELSE 0) + CountInForest(node.dependencies, 1, id)
CountInForest(forest, k, id) ==
    IF k > Len(forest) THEN 0
    ELSE CountInNode(forest[k], id) + CountInForest(forest, k + 1, id)

ListedByAnother(m, id) ==
    \E k \in 1..Len(m) : m[k].id # id /\ SeqContains(m[k].children, id)

C6_ForestCompleteness ==
    Returned =>
      /\ \A d \in ResultKeys : CountInForest(Result.dependencyTree, 1, d) = 1
      /\ \A k \in 1..Len(Result.dependencyTree) :
           ~ListedByAnother(Result.components, Result.dependencyTree[k].component)

(***************************************************************************)
(* Transfer orchestrator (collector.ts).  The state of one transfer is a   *)
(* record; live is the log of what figma.getNodeById found for each        *)
(* component when the processor looked it up, detached the clones that     *)
(* were made but not attached to the transfer page, pagesBefore the number *)
(* of pages the document had when the request came.                        *)
(***************************************************************************)
Max(a, b) == IF a > b THEN a ELSE b

CloneId(c, t) == c \o "_clone" \o ToString(t)

\* what the lookup and the clone of one component can come to: the node is
\* there and clones, is gone, is locked, clone() throws, appendChild throws
LiveStatuses == {"ok", "absent", "locked", "cloneThrows", "appendThrows"}

CollectorWarning(type, c, message) ==
    [type |-> type, componentId |-> c, message |-> message]

\* new Map(): the entries of the analysis for the requested ids, in the
\* order of their first mention
RECURSIVE FilterComponents(_, _, _, _)
\* mutant: the ids of the request are ignored, every analysed component is taken
FilterComponents_All(componentIds, k, components, acc) == components

FilterComponents(componentIds, k, components, acc) ==
    IF k > Len(componentIds) THEN acc
    ELSE FilterComponents(componentIds, k + 1, components,
            IF MapHas(components, componentIds[k])
            THEN MapSet(acc, componentIds[k], MapGet(components, componentIds[k]))
            ELSE acc)

NewTransfer(componentIds, settings, components) ==
    [pc |-> "collecting", componentIds |-> componentIds, settings |-> settings,
     components |-> components, warnings |-> <<>>, collectedNodes |-> <<>>,
     live |-> <<>>, detached |-> <<>>, tracker |-> TrackerStart(0, "analyzing"),
     transferPage |-> 0, collectorError |-> "", error |-> "", result |-> <<>>,
     positions |-> <<>>, annotations |-> <<>>, entry |-> <<>>, toSave |-> <<>>,
     pagesBefore |-> 0]

\* mutant: a failure of clone or appendChild is not caught by the processor
CaughtByProcessor_Never(status) == FALSE

\* the try/catch inside the processor covers clone() and appendChild()
CaughtByProcessor(status) == status \in {"cloneThrows", "appendThrows"}

\* the processor of collectAndTransferComponents for one component, past its
\* cancellation check; c is the transfer, its pages and the messages posted
CollectComponent(t, c, comp, status) ==
    LET seen == [c EXCEPT !.x.live = Append(@, [id |-> comp.id, status |-> status])]
        failed == [seen EXCEPT !.x.warnings =
                      Append(@, CollectorWarning("MISSING_DEFINITION", comp.id,
                                                 "Failed to collect"))]
        clone == [id |-> CloneId(comp.id, t), of |-> comp.id]
    IN  CASE status = "absent" ->
               [seen EXCEPT !.x.warnings =
                   Append(@, CollectorWarning("MISSING_DEFINITION", comp.id, "not found"))]
          [] status = "locked" ->
               [seen EXCEPT !.x.warnings =
                   Append(@, CollectorWarning("LOCKED_COMPONENT", comp.id,
                                              "is locked and was skipped"))]
          [] status = "cloneThrows" -> failed
          [] status = "appendThrows" -> [failed EXCEPT !.x.detached = Append(@, clone.id)]
          [] OTHER ->
               [seen EXCEPT !.pages = AppendChild(@, c.x.transferPage, clone.id),
                            !.x.collectedNodes = Append(@, clone),
                            !.x.tracker = TrackerIncrement(@),
                            !.msgs = TrackerUpdate(@, t, TrackerIncrement(c.x.tracker))]

\* width and height of the definitions, which their clones keep
NodeSize(d) ==
    CASE d = "A" -> [width |-> 30, height |-> 20]
      [] d = "S" -> [width |-> 50, height |-> 40]
      [] OTHER -> [width |-> 10, height |-> 10]

RECURSIVE GridLayout(_, _, _, _, _, _, _)
GridLayout(nodes, k, x, y, maxHeightInRow, col, settings) ==
    IF k > Len(nodes) THEN <<>>
    ELSE LET size == NodeSize(nodes[k].of)
             maxHeight == Max(maxHeightInRow, size.height)
         IN  <<[id |-> nodes[k].id, x |-> x, y |-> y]>> \o
             (IF col + 1 >= settings.gridColumns
              THEN GridLayout(nodes, k + 1, 0, y + maxHeight + settings.spacing, 0, 0,
                              settings)
              ELSE GridLayout(nodes, k + 1, x + size.width + settings.spacing, y,
                              maxHeight, col + 1, settings))

RECURSIVE ListLayout(_, _, _, _)
ListLayout(nodes, k, y, settings) ==
    IF k > Len(nodes) THEN <<>>
    ELSE <<[id |-> nodes[k].id, x |-> 0, y |-> y]>> \o
         ListLayout(nodes, k + 1, y + NodeSize(nodes[k].of).height + settings.spacing,
                    settings)

\* addAnnotations: one text node per clone, 20 above it, named after it
AddAnnotations(nodes, positions, settings) ==
    IF settings.includeDescriptions
    THEN [k \in 1..Len(nodes) |->
            [id |-> "text_" \o nodes[k].id, characters |-> nodes[k].of,
             x |-> positions[k].x, y |-> positions[k].y - 20]]
    ELSE <<>>

\* organizeComponentsOnPage: the positions given and the annotations made
OrganizeComponentsOnPage(nodes, settings) ==
    IF Len(nodes) = 0 THEN [positions |-> <<>>, annotations |-> <<>>]
    ELSE LET positions == IF settings.layoutType = "grid"
                          THEN GridLayout(nodes, 1, 0, 0, 0, 0, settings)
                          ELSE ListLayout(nodes, 1, 0, settings)
         IN  [positions |-> positions,
              annotations |-> IF settings.includeAnnotations
                              THEN AddAnnotations(nodes, positions, settings)
                              ELSE <<>>]

RECURSIVE AppendChildren(_, _, _, _)
AppendChildren(pgs, page, nodes, k) ==
    IF k > Len(nodes) THEN pgs
    ELSE AppendChildren(AppendChild(pgs, page, nodes[k].id), page, nodes, k + 1)

\* mutant: every error is wrapped
IsCancellation_Never(error) == FALSE

\* error instanceof Error && error.message === 'Operation cancelled'
IsCancellation(error) == error = CancelledError

\* the catch of collectAndTransferComponents: what it throws for error
CollectorRethrow(error) ==
    IF IsCancellation(error) THEN error ELSE "Transfer failed: Error: " \o error

\* the catch of handleTransferComponents: the error posted to the UI
HandlerErrorMessage(error) ==
    IF IsCancellation(error) THEN "Transfer cancelled by user" ELSE error

TransferError(t, error) ==
    [type |-> "TRANSFER_ERROR", run |-> t, error |-> HandlerErrorMessage(error)]

(***************************************************************************)
(* The transfer specification: the plugin with a fixed scene, handling     *)
(* AnalyzeSelection, TransferComponents and CancelOperation messages.      *)
(* A handler runs without interruption up to an await that needs the       *)
(* event loop (the timer of delay(0), a clientStorage call); only there    *)
(* is the next message handled.  Transfer requests do not overlap.         *)
(***************************************************************************)
RequestOrder == <<"A", "S", "B", "C">>

\* the ids a TransferComponents message carries
Requests ==
    {SubSeq(RequestOrder, 1, n) : n \in 0..Min(MaxItems, Len(RequestOrder))}
    \cup {<<"unknown">>, <<"B", "unknown", "B">>}

\* the settings a TransferComponents message carries: every batch size and
\* page behaviour; the shipped options (grid, navigate, select, annotate)
\* with two of the behaviours, all of them off and a list with the others
ShippedOptions(b) == b \in {"ask", "replace"}

TransferSettings ==
    {[batchSize |-> bs, transferPageBehavior |-> b, autoNavigate |-> ShippedOptions(b),
      autoSelect |-> ShippedOptions(b),
      layoutType |-> IF ShippedOptions(b) THEN "grid" ELSE "list",
      gridColumns |-> 2, spacing |-> 5, includeAnnotations |-> ShippedOptions(b),
      includeDescriptions |-> ShippedOptions(b),
      groupingMethod |-> IF ShippedOptions(b) THEN "hierarchy" ELSE "flat"] :
        bs \in 1..MaxBatch, b \in {"ask", "append", "replace", "timestamp"}}

\* what an earlier transfer left on the Transfer page
OldChildren == <<"old1", "old2", "old3">>

OldEntry == [id |-> 0, componentIds |-> <<"C">>, status |-> "success"]

InitTransfer ==
    /\ FixedScene
    /\ analysis = NoAnalysis
    /\ currentAnalysisResult = <<>>
    /\ uiMessages = <<>>
    /\ batch = [r \in Runs |-> NoBatch]
    /\ tokenCancelled = [r \in Runs |-> FALSE]
    /\ currentCancellationToken = 0
    /\ xfer = [r \in Runs |-> NoTransfer]
    /\ \/ pages = <<ScenePage>> /\ history = <<>>
       \/ /\ pages = <<ScenePage, [name |-> "Transfer", children |-> OldChildren]>>
          /\ history = <<OldEntry>>
    /\ currentPage = 1
    /\ NoUnits

\* no handler is in the middle of a synchronous stretch
LoopIdle ==
    \A t \in DOMAIN xfer :
        \/ xfer[t].pc \in {"idle", "done", "loadHistory", "saveHistory"}
        \/ xfer[t].pc = "collecting" /\ batch[t].pc = "yield"

NoTransferRunning == \A t \in DOMAIN xfer : xfer[t].pc \in {"idle", "done"}

\* an ANALYZE_SELECTION message, with the settings as shipped
TransferAnalyze ==
    /\ LoopIdle
    /\ HandleAnalyzeSelection(FALSE)

\* handleTransferComponents up to its first suspension: the token, the
\* filter, and collectAndTransferComponents up to the call of processBatch
HandleTransferComponents(t, componentIds, settings, createOk) ==
    /\ UNCHANGED unitVars
    /\ LoopIdle
    /\ xfer[t].pc = "idle"
    /\ tokenCancelled' = [tokenCancelled EXCEPT ![t] = FALSE]
    /\ LET components == IF currentAnalysisResult = <<>> THEN <<>>
                         ELSE FilterComponents(componentIds, 1,
                                  currentAnalysisResult[1].components, <<>>)
           x == [NewTransfer(componentIds, settings, components)
                    EXCEPT !.pagesBefore = Len(pages)]
           started == [x EXCEPT !.tracker = TrackerStart(Len(components), "collecting")]
           resolved == FindOrCreateTransferPage(pages, settings)
       IN  IF currentAnalysisResult = <<>> \/ Len(components) = 0
           THEN LET error == IF currentAnalysisResult = <<>>
                             THEN "No analysis result available. Please analyze selection first."
                             ELSE "No valid components selected for transfer"
                IN  /\ xfer' = [xfer EXCEPT ![t] = [x EXCEPT !.pc = "done", !.error = error]]
                    /\ uiMessages' = Append(uiMessages, TransferError(t, error))
                    /\ currentCancellationToken' = 0
                    /\ UNCHANGED <<batch, pages>>
           ELSE IF ~ReusesPage(pages, settings) /\ ~createOk
           THEN LET error == CollectorRethrow("createPage failed")
                IN  /\ xfer' = [xfer EXCEPT ![t] =
                                  [started EXCEPT !.pc = "done", !.collectorError = error,
                                                  !.error = error]]
                    /\ uiMessages' = Append(TrackerUpdate(uiMessages, t, started.tracker),
                                            TransferError(t, error))
                    /\ currentCancellationToken' = 0
                    /\ UNCHANGED <<batch, pages>>
           ELSE /\ xfer' = [xfer EXCEPT ![t] =
                              [started EXCEPT !.transferPage = resolved.page]]
                /\ pages' = resolved.pages
                /\ uiMessages' = TrackerUpdate(TrackerUpdate(uiMessages, t, started.tracker),
                                               t, started.tracker)
                /\ batch' = [batch EXCEPT ![t] =
                               PBStart(components, settings.batchSize, TRUE)]
                /\ currentCancellationToken' = t
    /\ UNCHANGED <<sceneVars, analysis, currentAnalysisResult, currentPage, history>>

\* a TransferComponents message of a caller that keeps to one transfer at a
\* time: the UI hides the transfer button while it shows the progress
TransferRequest(t, componentIds, settings, createOk) ==
    /\ NoTransferRunning
    /\ HandleTransferComponents(t, componentIds, settings, createOk)

\* processBatch: the loop test and the cancellation check before a batch
TransferLoop(t) ==
    /\ UNCHANGED unitVars
    /\ xfer[t].pc = "collecting" /\ batch[t].pc = "loop"
    /\ batch' = [batch EXCEPT ![t] = PBLoop(@, tokenCancelled[t])]
    /\ UNCHANGED <<sceneVars, analyzerVars, tokenCancelled, transferVars>>

\* processBatch calls the processor for the next component of the batch;
\* callbackCancels: the progress callback that tracker.increment calls after
\* the clone cancels the token
TransferItemWith(t, status, callbackCancels) ==
    /\ UNCHANGED unitVars
    /\ xfer[t].pc = "collecting"
    /\ batch[t].pc = "item" /\ batch[t].j < PBBatchLen(batch[t])
    /\ LET called == PBCall(batch[t])
           comp == called.calls[Len(called.calls)].item
           c == CollectComponent(t, [x |-> xfer[t], pages |-> pages, msgs |-> uiMessages],
                                 comp, status)
       IN  IF tokenCancelled[t]
           THEN /\ batch' = [batch EXCEPT ![t] = PBThrow(called, CancelledError)]
                /\ UNCHANGED <<xfer, pages, uiMessages>>
           ELSE IF status \in {"cloneThrows", "appendThrows"} /\ ~CaughtByProcessor(status)
           THEN /\ batch' = [batch EXCEPT ![t] = PBThrow(called, status)]
                /\ xfer' = [xfer EXCEPT ![t].live =
                               Append(@, [id |-> comp.id, status |-> status])]
                /\ UNCHANGED <<pages, uiMessages>>
           ELSE /\ batch' = [batch EXCEPT ![t] = PBReturn(called, "undefined")]
                /\ xfer' = [xfer EXCEPT ![t] = c.x]
                /\ pages' = c.pages
                /\ uiMessages' = c.msgs
    /\ tokenCancelled' = [tokenCancelled EXCEPT ![t] = @ \/ callbackCancels]
    /\ UNCHANGED <<sceneVars, analysis, currentAnalysisResult,
                   currentCancellationToken, currentPage, history>>

\* the plugin's progress callback posts TRANSFER_PROGRESS and nothing else
TransferItem(t, status) == TransferItemWith(t, status, FALSE)

\* after a batch: onProgress sets the tracker; the yield when items remain
TransferProgress(t) ==
    /\ UNCHANGED unitVars
    /\ xfer[t].pc = "collecting"
    /\ batch[t].pc = "item" /\ batch[t].j >= PBBatchLen(batch[t])
    /\ LET after == PBProgress(batch[t], TRUE)
           tracker == TrackerUpdateProgress(xfer[t].tracker,
                          after.progress[Len(after.progress)].processed)
       IN  /\ batch' = [batch EXCEPT ![t] = after]
           /\ xfer' = [xfer EXCEPT ![t].tracker = tracker]
           /\ uiMessages' = TrackerUpdate(uiMessages, t, tracker)
    /\ UNCHANGED <<sceneVars, analysis, currentAnalysisResult, tokenCancelled,
                   currentCancellationToken, pages, currentPage, history>>

\* the timer of delay(0) fires
TransferResume(t) ==
    /\ UNCHANGED unitVars
    /\ xfer[t].pc = "collecting" /\ batch[t].pc = "yield"
    /\ batch' = [batch EXCEPT ![t] = PBResume(@)]
    /\ UNCHANGED <<sceneVars, analyzerVars, tokenCancelled, transferVars>>

\* slice(0, MAX_HISTORY_ENTRIES)
TrimHistory(h) == SubSeq(h, 1, Min(Len(h), MAX_HISTORY_ENTRIES))

\* processBatch resolved: phases 3 and 4 of collectAndTransferComponents and
\* its return; handleTransferComponents builds stats and history entry and
\* suspends in loadHistory
TransferCollected(t) ==
    /\ UNCHANGED unitVars
    /\ xfer[t].pc = "collecting" /\ batch[t].pc = "resolved"
    /\ LET x == xfer[t]
           organizing == TrackerSetPhase(x.tracker, "organizing")
           finalizing == TrackerSetPhase(organizing, "finalizing")
           completed == TrackerComplete(finalizing)
           organized == OrganizeComponentsOnPage(x.collectedNodes, x.settings)
           result == [nodeIds |-> [k \in 1..Len(x.collectedNodes) |-> x.collectedNodes[k].id],
                      warnings |-> x.warnings]
           stats == [componentsTransferred |-> Len(x.components),
                     variantSetsTransferred |->
                         Cardinality({k \in 1..Len(x.components) :
                                         x.components[k].type = "COMPONENT_SET"}),
                     warnings |-> Len(result.warnings)]
           entry == [id |-> t,
                     componentIds |-> [k \in 1..Len(x.components) |-> x.components[k].id],
                     stats |-> stats,
                     status |-> IF Len(result.warnings) > 0 THEN "warning" ELSE "success",
                     warnings |-> result.warnings]
       IN  /\ pages' = AppendChildren(pages, x.transferPage, organized.annotations, 1)
           /\ currentPage' = IF x.settings.autoNavigate THEN x.transferPage ELSE currentPage
           /\ selection' = IF x.settings.autoSelect /\ Len(x.collectedNodes) > 0
                           THEN result.nodeIds ELSE selection
           /\ uiMessages' = TrackerUpdate(TrackerUpdate(TrackerUpdate(uiMessages,
                                t, organizing), t, finalizing), t, completed)
           /\ xfer' = [xfer EXCEPT ![t] =
                         [x EXCEPT !.pc = "loadHistory", !.tracker = completed,
                                   !.positions = organized.positions,
                                   !.annotations = organized.annotations,
                                   !.result = <<result>>, !.entry = <<entry>>]]
    /\ UNCHANGED <<mainComponent, visible, locked, key, analysis, currentAnalysisResult,
                   batchVars, currentCancellationToken, history>>

\* mutant: the catch of handleTransferComponents drops the analysis result
TransferRejected_ForgetsAnalysis(t) ==
    /\ UNCHANGED unitVars
    /\ xfer[t].pc = "collecting" /\ batch[t].pc = "rejected"
    /\ LET error == CollectorRethrow(batch[t].error)
       IN  /\ xfer' = [xfer EXCEPT ![t].pc = "done", ![t].collectorError = error,
                                   ![t].error = error]
           /\ uiMessages' = Append(uiMessages, TransferError(t, error))
    /\ currentCancellationToken' = 0
    /\ currentAnalysisResult' = <<>>
    /\ UNCHANGED <<sceneVars, analysis, batchVars, pages, currentPage, history>>

\* mutant: the catch of handleTransferComponents logs the failed transfer
TransferRejected_LogsError(t) ==
    /\ UNCHANGED unitVars
    /\ xfer[t].pc = "collecting" /\ batch[t].pc = "rejected"
    /\ LET error == CollectorRethrow(batch[t].error)
       IN  /\ xfer' = [xfer EXCEPT ![t].pc = "done", ![t].collectorError = error,
                                   ![t].error = error]
           /\ uiMessages' = Append(uiMessages, TransferError(t, error))
    /\ currentCancellationToken' = 0
    /\ history' = <<[id |-> t, componentIds |-> xfer[t].componentIds,
                     status |-> "error"]>> \o history
    /\ UNCHANGED <<sceneVars, analysis, currentAnalysisResult, batchVars, pages,
                   currentPage>>

\* processBatch rejected: the catch of collectAndTransferComponents, then the
\* catch and the finally of handleTransferComponents
TransferRejected(t) ==
    /\ UNCHANGED unitVars
    /\ xfer[t].pc = "collecting" /\ batch[t].pc = "rejected"
    /\ LET error == CollectorRethrow(batch[t].error)
       IN  /\ xfer' = [xfer EXCEPT ![t].pc = "done", ![t].collectorError = error,
                                   ![t].error = error]
           /\ uiMessages' = Append(uiMessages, TransferError(t, error))
    /\ currentCancellationToken' = 0
    /\ UNCHANGED <<sceneVars, analysis, currentAnalysisResult, batchVars, pages,
                   currentPage, history>>

\* addHistoryEntry: loadHistory returns the stored history, or [] when
\* clientStorage fails; the entry is put first and saveHistory suspends
TransferHistoryLoaded(t, ok) ==
    /\ UNCHANGED unitVars
    /\ xfer[t].pc = "loadHistory"
    /\ LET loaded == IF ok THEN history ELSE <<>>
       IN  xfer' = [xfer EXCEPT ![t].pc = "saveHistory",
                                ![t].toSave = TrimHistory(xfer[t].entry \o loaded)]
    /\ UNCHANGED <<sceneVars, analyzerVars, batchVars, currentCancellationToken, pages,
                   currentPage, history>>

\* saveHistory settles: TRANSFER_COMPLETE is posted, or the failure goes to
\* the catch of handleTransferComponents; then its finally
TransferHistorySaved(t, ok) ==
    /\ UNCHANGED unitVars
    /\ xfer[t].pc = "saveHistory"
    /\ IF ok
       THEN /\ history' = xfer[t].toSave
            /\ xfer' = [xfer EXCEPT ![t].pc = "done"]
            /\ uiMessages' = Append(uiMessages,
                                [type |-> "TRANSFER_COMPLETE", run |-> t,
                                 stats |-> xfer[t].entry[1].stats,
                                 warnings |-> xfer[t].result[1].warnings])
       ELSE /\ xfer' = [xfer EXCEPT ![t].pc = "done", ![t].error = "Failed to save history"]
            /\ uiMessages' = Append(uiMessages, TransferError(t, "Failed to save history"))
            /\ UNCHANGED history
    /\ currentCancellationToken' = 0
    /\ UNCHANGED <<sceneVars, analysis, currentAnalysisResult, batchVars, pages, currentPage>>

\* handleCancelOperation
HandleCancelOperation ==
    /\ UNCHANGED unitVars
    /\ LoopIdle
    /\ IF currentCancellationToken # 0
       THEN tokenCancelled' = [tokenCancelled EXCEPT ![currentCancellationToken] = TRUE]
       ELSE UNCHANGED tokenCancelled
    /\ UNCHANGED <<sceneVars, analyzerVars, batch, transferVars>>

NextTransfer ==
    \/ TransferAnalyze
    \/ \E t \in Runs, ids \in Requests, settings \in TransferSettings, createOk \in BOOLEAN :
          TransferRequest(t, ids, settings, createOk)
    \/ \E t \in Runs : TransferLoop(t)
    \/ \E t \in Runs, status \in LiveStatuses : TransferItem(t, status)
    \/ \E t \in Runs : TransferProgress(t)
    \/ \E t \in Runs : TransferResume(t)
    \/ \E t \in Runs : TransferCollected(t)
    \/ \E t \in Runs : TransferRejected(t)
    \/ \E t \in Runs, ok \in BOOLEAN : TransferHistoryLoaded(t, ok)
    \/ \E t \in Runs, ok \in BOOLEAN : TransferHistorySaved(t, ok)
    \/ HandleCancelOperation

SpecTransfer == InitTransfer /\ [][NextTransfer]_vars

(***************************************************************************)
(* Claims about the batch runner                                           *)
(***************************************************************************)
\* the processor has been called for exactly the first n items, in order
CalledFirst(pb, n) ==
    /\ Len(pb.calls) = n
    /\ \A k \in 1..n : pb.calls[k] = [item |-> pb.items[k], index |-> k - 1]

C7_BatchStartCancelled(pb) ==
    pb.pc = "loop" /\ pb.i < PBTotal(pb) /\ pb.hasToken

C7_RejectedAsCancelled(pb) ==
    pb.pc = "rejected" /\ pb.error = CancelledError

\* C7: when the token is cancelled at the moment batch N is about to start
\* (i = N * batchSize), the call is rejected with 'Operation cancelled' in
\* that very step without another processor call; a call rejected that way
\* has handed the processor exactly the items of batches 0..N-1, each with a
\* result, and none of batch N or later.
C7_CancelledBeforeBatch ==
    /\ [](C7_RejectedAsCancelled(batch[1]) =>
            /\ batch[1].i < PBTotal(batch[1])
            /\ batch[1].i % batch[1].batchSize = 0
            /\ CalledFirst(batch[1], batch[1].i)
            /\ batch[1].results = [k \in 1..batch[1].i |-> 2 * batch[1].items[k]])
    /\ [][C7_BatchStartCancelled(batch[1]) /\ tokenCancelled[1] =>
            /\ C7_RejectedAsCancelled(batch'[1])
            /\ batch'[1].calls = batch[1].calls
            /\ CalledFirst(batch[1], batch[1].i)]_vars

\* a call cancelled while its first batch ran is rejected before batch 1
C7_Witness ==
    /\ C7_RejectedAsCancelled(batch[1])
    /\ batch[1].batchSize = 2 /\ PBTotal(batch[1]) = 3
    /\ batch[1].i = 2 /\ Len(batch[1].calls) = 2

(***************************************************************************)
(* Claims about the transfer                                               *)
(***************************************************************************)
\* the positions in uiMessages of the messages of a type posted for run t
MessagesOf(t, type) ==
    {k \in 1..Len(uiMessages) : uiMessages[k].type = type /\ uiMessages[k].run = t}

Collecting(t) == xfer[t].pc = "collecting"

Done(t) == xfer[t].pc = "done"

\* the token of run t is cancelled while a batch of it has not started
CancelledWithBatchesLeft(t) ==
    /\ xfer[t].pc \in {"collecting", "done"}
    /\ tokenCancelled[t]
    /\ \/ batch[t].pc = "yield"
       \/ batch[t].pc \in {"loop", "rejected"} /\ batch[t].i < PBTotal(batch[t])

\* C8: once CancelOperation has cancelled the token of a transfer that has a
\* batch left to start, no further component is processed, no
\* TRANSFER_COMPLETE is posted for it, and when it has ended the collector
\* has thrown 'Operation cancelled' itself and the one TRANSFER_ERROR posted
\* says 'Transfer cancelled by user'.
C8_CancelEndsTransfer ==
    \A t \in Runs :
        /\ Collecting(t) /\ tokenCancelled[t] =>
               batch[t].pc \in {"yield", "loop", "rejected"}
        /\ CancelledWithBatchesLeft(t) =>
               /\ MessagesOf(t, "TRANSFER_COMPLETE") = {}
               /\ Done(t) =>
                     /\ xfer[t].collectorError = CancelledError
                     /\ xfer[t].result = <<>>
                     /\ Cardinality(MessagesOf(t, "TRANSFER_ERROR")) = 1
                     /\ uiMessages[Len(uiMessages)] =
                           [type |-> "TRANSFER_ERROR", run |-> t,
                            error |-> "Transfer cancelled by user"]

\* a transfer cancelled after its first batch had made a clone has ended
C8_Witness ==
    /\ Done(1) /\ CancelledWithBatchesLeft(1)
    /\ Len(xfer[1].collectedNodes) >= 1
    /\ Len(xfer[1].live) < Len(xfer[1].components)

\* the collector has returned its result for run t
Collected(t) == xfer[t].pc \in {"loadHistory", "saveHistory", "done"} /\ xfer[t].result # <<>>

WarningsOf(t, c) ==
    {k \in 1..Len(xfer[t].warnings) : xfer[t].warnings[k].componentId = c}

WarnedAs(t, c, type) ==
    /\ Cardinality(WarningsOf(t, c)) = 1
    /\ \A k \in WarningsOf(t, c) : xfer[t].warnings[k].type = type

\* what the lookups of component c found
LiveOf(t, c) ==
    {xfer[t].live[k].status : k \in {m \in 1..Len(xfer[t].live) : xfer[t].live[m].id = c}}

AppendedClones(t, c) ==
    LET children == pages[xfer[t].transferPage].children
    IN  {k \in 1..Len(children) : children[k] = CloneId(c, t)}

ReturnedIds(t, c) ==
    LET nodeIds == xfer[t].result[1].nodeIds
    IN  {k \in 1..Len(nodeIds) : nodeIds[k] = CloneId(c, t)}

NoCloneKept(t, c) == AppendedClones(t, c) = {} /\ ReturnedIds(t, c) = {}

NoCloneMade(t, c) == NoCloneKept(t, c) /\ ~SeqContains(xfer[t].detached, CloneId(c, t))

OutcomeMissing(t, c) ==
    WarnedAs(t, c, "MISSING_DEFINITION") /\ LiveOf(t, c) = {"absent"} /\ NoCloneMade(t, c)

OutcomeLocked(t, c) ==
    WarnedAs(t, c, "LOCKED_COMPONENT") /\ LiveOf(t, c) = {"locked"} /\ NoCloneMade(t, c)

OutcomeCloned(t, c) ==
    /\ WarningsOf(t, c) = {}
    /\ LiveOf(t, c) = {"ok"}
    /\ Cardinality(AppendedClones(t, c)) = 1
    /\ Cardinality(ReturnedIds(t, c)) = 1

\* clone() or appendChild() failed on a node that is there
OutcomeFailed(t, c) ==
    /\ WarnedAs(t, c, "MISSING_DEFINITION")
    /\ LiveOf(t, c) \in {{"cloneThrows"}, {"appendThrows"}}
    /\ NoCloneKept(t, c)

ExactlyOne(outcomes) == Cardinality({k \in 1..Len(outcomes) : outcomes[k]}) = 1

\* ids + skipped = inputs, and the ids follow the order of the inputs
CountsAndOrder(t) ==
    LET x == xfer[t]
        nodeIds == x.result[1].nodeIds
    IN  /\ Len(nodeIds) + Len(x.result[1].warnings) = Len(x.components)
        /\ \A j, k \in 1..Len(nodeIds) :
              j < k => \E m, n \in 1..Len(x.components) :
                          /\ m < n
                          /\ nodeIds[j] = CloneId(x.components[m].id, t)
                          /\ nodeIds[k] = CloneId(x.components[n].id, t)

\* C9 as stated: every component of a transfer that returned ends in exactly
\* one of the outcomes missing / locked / cloned.
C9_Original ==
    \A t \in Runs : Collected(t) =>
        /\ \A k \in 1..Len(xfer[t].components) :
              LET c == xfer[t].components[k].id
              IN  ExactlyOne(<<OutcomeMissing(t, c), OutcomeLocked(t, c),
                               OutcomeCloned(t, c)>>)
        /\ CountsAndOrder(t)

\* C9: every component of a transfer that returned ends in exactly one of
\* four outcomes: a MISSING_DEFINITION warning for an absent node and no
\* clone; a LOCKED_COMPONENT warning and no clone; one clone appended to the
\* transfer page whose id is returned; or, when clone or appendChild failed
\* on a node that is there, a MISSING_DEFINITION warning with no clone on
\* the page or among the ids.  ids + warnings = components, ids in input
\* order.
C9_FourOutcomes ==
    \A t \in Runs : Collected(t) =>
        /\ \A k \in 1..Len(xfer[t].components) :
              LET c == xfer[t].components[k].id
              IN  ExactlyOne(<<OutcomeMissing(t, c), OutcomeLocked(t, c),
                               OutcomeCloned(t, c), OutcomeFailed(t, c)>>)
        /\ CountsAndOrder(t)

\* a returned transfer of three components: cloned, locked, failed to attach
C9_Witness ==
    /\ Collected(1)
    /\ Len(xfer[1].components) = 3
    /\ OutcomeCloned(1, xfer[1].components[1].id)
    /\ OutcomeLocked(1, xfer[1].components[2].id)
    /\ OutcomeFailed(1, xfer[1].components[3].id)
    /\ xfer[1].detached # <<>>

FailedLookups(t) ==
    {k \in 1..Len(xfer[t].live) : xfer[t].live[k].status \in {"cloneThrows", "appendThrows"}}

FailureWarnings(t) ==
    {k \in 1..Len(xfer[t].warnings) : xfer[t].warnings[k].message = "Failed to collect"}

\* C10: a failure of clone or appendChild for a component leaves exactly one
\* warning, about that component; it does not reject the batch run, so that
\* unless the transfer is cancelled every component is looked up, in order,
\* and the collector returns a result.
C10_FailureIsWarning ==
    \A t \in Runs : xfer[t].pc # "idle" /\ FailedLookups(t) # {} =>
        /\ Cardinality(FailureWarnings(t)) = Cardinality(FailedLookups(t))
        /\ \A k \in FailedLookups(t) :
              \E w \in FailureWarnings(t) :
                  xfer[t].warnings[w].componentId = xfer[t].live[k].id
        /\ batch[t].error \in {"", CancelledError}
        /\ batch[t].pc \in {"resolved", "rejected"} /\ ~tokenCancelled[t] =>
              /\ batch[t].pc = "resolved"
              /\ Len(xfer[t].live) = Len(xfer[t].components)
              /\ \A k \in 1..Len(xfer[t].live) :
                    xfer[t].live[k].id = xfer[t].components[k].id
        /\ Done(t) /\ xfer[t].collectorError # CancelledError => xfer[t].result # <<>>

\* batches of two: the first component fails to clone, the second of the
\* same batch and the third of the next batch are cloned and returned
C10_Witness ==
    /\ Collected(1)
    /\ xfer[1].settings.batchSize = 2
    /\ Len(xfer[1].live) = 3
    /\ xfer[1].live[1].status = "cloneThrows"
    /\ xfer[1].live[2].status = "ok"
    /\ xfer[1].live[3].status = "ok"
    /\ Len(xfer[1].result[1].nodeIds) = 2
    /\ Len(xfer[1].result[1].warnings) = 1

\* the transfer of run t has resolved its page
PageResolved(t) == xfer[t].pc # "idle" /\ xfer[t].transferPage # 0

\* C11: a transfer with transferPageBehavior = timestamp puts its clones on
\* a page created by that transfer, whose name is 'Transfer' followed by a
\* date, whether or not a page named 'Transfer' existed.
C11_TimestampPage ==
    \A t \in Runs :
        PageResolved(t) /\ xfer[t].settings.transferPageBehavior = "timestamp" =>
            /\ xfer[t].transferPage > xfer[t].pagesBefore
            /\ pages[xfer[t].transferPage].name = "Transfer 2026-01-01"
            /\ \A k \in 1..Len(xfer[t].collectedNodes) :
                  SeqContains(pages[xfer[t].transferPage].children,
                              xfer[t].collectedNodes[k].id)

\* C12: a transfer with transferPageBehavior = replace that found a page
\* named 'Transfer' works on a page that holds none of the children the page
\* had before.
C12_ReplaceClearsPage ==
    \A t \in Runs :
        /\ PageResolved(t)
        /\ xfer[t].settings.transferPageBehavior = "replace"
        /\ xfer[t].transferPage <= xfer[t].pagesBefore
        => \A k \in 1..Len(pages[xfer[t].transferPage].children) :
              ~SeqContains(OldChildren, pages[xfer[t].transferPage].children[k])

(***************************************************************************)
(* The tracker specification: a ProgressTracker without a callback, with   *)
(* its methods called in any order with any arguments.                     *)
(***************************************************************************)
\* the plugin at rest: nothing analysed, nothing transferred
PluginAtRest ==
    /\ FixedScene
    /\ analysis = NoAnalysis
    /\ currentAnalysisResult = <<>>
    /\ uiMessages = <<>>
    /\ batch = [r \in Runs |-> NoBatch]
    /\ tokenCancelled = [r \in Runs |-> FALSE]

restVars == <<sceneVars, analyzerVars, batchVars, transferVars>>

Phases == {"analyzing", "collecting", "organizing", "finalizing"}

InitTracker ==
    /\ PluginAtRest
    /\ NoTransfers
    /\ NoUnits

TrackerStartCall(total, phase) ==
    /\ UNCHANGED <<layoutCall, spacingCall, traversal, throttled, settingsStore>>
    /\ progressTracker' = TrackerStart(total, phase)
    /\ UNCHANGED restVars

TrackerSetPhaseCall(phase) ==
    /\ UNCHANGED <<layoutCall, spacingCall, traversal, throttled, settingsStore>>
    /\ progressTracker' = TrackerSetPhase(progressTracker, phase)
    /\ UNCHANGED restVars

TrackerUpdateProgressCall(processed) ==
    /\ UNCHANGED <<layoutCall, spacingCall, traversal, throttled, settingsStore>>
    /\ progressTracker' = TrackerUpdateProgress(progressTracker, processed)
    /\ UNCHANGED restVars

TrackerIncrementCall ==
    /\ UNCHANGED <<layoutCall, spacingCall, traversal, throttled, settingsStore>>
    /\ progressTracker.processed < MaxProcessed
    /\ progressTracker' = TrackerIncrement(progressTracker)
    /\ UNCHANGED restVars

TrackerCompleteCall ==
    /\ UNCHANGED <<layoutCall, spacingCall, traversal, throttled, settingsStore>>
    /\ progressTracker' = TrackerComplete(progressTracker)
    /\ UNCHANGED restVars

NextTracker ==
    \/ \E total \in 0..MaxTotal, phase \in Phases : TrackerStartCall(total, phase)
    \/ \E phase \in Phases : TrackerSetPhaseCall(phase)
    \/ \E processed \in 0..MaxProcessed : TrackerUpdateProgressCall(processed)
    \/ TrackerIncrementCall
    \/ TrackerCompleteCall

SpecTracker == InitTracker /\ [][NextTracker]_vars

\* a step that leaves total alone and does not lower processed does not
\* lower the percentage
C13_Monotone ==
    [][/\ progressTracker'.total = progressTracker.total
       /\ progressTracker'.processed >= progressTracker.processed
       => GetProgress(progressTracker').percentage >= GetProgress(progressTracker).percentage]_vars

\* C13: the percentage of a tracker lies in [0,100] and is 0 when total is
\* 0, whatever increment and updateProgress calls were made with
\* non-decreasing processed values.
C13_PercentageBounded ==
    /\ GetProgress(progressTracker).percentage \in 0..100
    /\ progressTracker.total = 0 => GetProgress(progressTracker).percentage = 0

\* C14: processBatch calls the processor for the items in input order, each
\* at most once and with its position as index; it fails only with the
\* cancellation error or with what the processor threw; and a call that
\* resolves has called the processor exactly once for every item and
\* resolves with the results in the order of the items.
C14_OncePerItemInOrder ==
    LET pb == batch[1]
    IN  /\ CalledFirst(pb, Len(pb.calls))
        /\ pb.pc = "rejected" => pb.error \in {CancelledError, "processor failed"}
        /\ pb.pc = "resolved" =>
              /\ CalledFirst(pb, PBTotal(pb))
              /\ pb.results = [k \in 1..PBTotal(pb) |-> 2 * pb.items[k]]

\* three items in batches of two, resolved
C14_Witness ==
    /\ batch[1].pc = "resolved"
    /\ PBTotal(batch[1]) = 3 /\ batch[1].batchSize = 2
    /\ Len(batch[1].calls) = 3

\* the batches whose items are all processed and reported
CompletedBatches(pb) == (pb.i \div pb.batchSize) + (IF pb.pc = "yield" THEN 1 ELSE 0)

\* C15: onProgress has been called once for every completed batch, the k-th
\* time with the number of items processed by then, min(k * batchSize,
\* total); the values reported increase strictly, and when the call has
\* resolved the last one is total.
C15_ProgressPerBatch ==
    LET pb == batch[1]
    IN  /\ Len(pb.progress) = CompletedBatches(pb)
        /\ \A k \in 1..Len(pb.progress) :
              /\ pb.progress[k].processed = Min(k * pb.batchSize, PBTotal(pb))
              /\ pb.progress[k].total = PBTotal(pb)
              /\ k > 1 => pb.progress[k].processed > pb.progress[k - 1].processed
        /\ pb.pc = "resolved" /\ PBTotal(pb) > 0 =>
              pb.progress[Len(pb.progress)].processed = PBTotal(pb)

\* three items in batches of two: onProgress(2, 3), then onProgress(3, 3)
C15_Witness ==
    /\ batch[1].pc = "resolved"
    /\ batch[1].progress = <<[processed |-> 2, total |-> 3], [processed |-> 3, total |-> 3]>>

(***************************************************************************)
(* Layout engine (validator.ts).  A positions map is a sequence of         *)
(* [id, x, y] in insertion order.                                          *)
(***************************************************************************)
\* mutant: a full row is not followed by a new row
GridStep_NoNewRow(g, comp, startX, spacing, columns) ==
    LET placed == [g EXCEPT !.positions = MapSet(@, comp.id,
                                             [id |-> comp.id, x |-> g.x, y |-> g.y]),
                            !.maxX = Max(g.maxX, g.x + DefaultWidth),
                            !.maxY = Max(g.maxY, g.y + DefaultHeight)]
    IN  IF g.col + 1 >= columns
        THEN [placed EXCEPT !.col = 0, !.x = startX]
        ELSE [placed EXCEPT !.col = g.col + 1, !.x = g.x + DefaultWidth + spacing]

\* one turn of the loop of layoutComponentsInGrid
GridStep(g, comp, startX, spacing, columns) ==
    LET maxHeightInRow == Max(g.maxHeightInRow, DefaultHeight)
        placed == [g EXCEPT !.positions = MapSet(@, comp.id,
                                             [id |-> comp.id, x |-> g.x, y |-> g.y]),
                            !.maxX = Max(g.maxX, g.x + DefaultWidth),
                            !.maxY = Max(g.maxY, g.y + DefaultHeight)]
    IN  IF g.col + 1 >= columns
        THEN [placed EXCEPT !.col = 0, !.x = startX,
                            !.y = g.y + maxHeightInRow + spacing, !.maxHeightInRow = 0]
        ELSE [placed EXCEPT !.col = g.col + 1, !.x = g.x + DefaultWidth + spacing,
                            !.maxHeightInRow = maxHeightInRow]

RECURSIVE GridLoop(_, _, _, _, _, _)
GridLoop(comps, k, g, startX, spacing, columns) ==
    IF k > Len(comps) THEN g
    ELSE GridLoop(comps, k + 1, GridStep(g, comps[k], startX, spacing, columns),
                  startX, spacing, columns)

LayoutComponentsInGrid(comps, startX, startY, settings) ==
    IF Len(comps) = 0 THEN [positions |-> <<>>, totalWidth |-> 0, totalHeight |-> 0]
    ELSE LET columns == IF settings.layoutType = "grid" THEN settings.gridColumns ELSE 1
             g == GridLoop(comps, 1,
                           [x |-> startX, y |-> startY, maxHeightInRow |-> 0, col |-> 0,
                            maxX |-> startX, maxY |-> startY, positions |-> <<>>],
                           startX, settings.spacing, columns)
         IN  [positions |-> g.positions, totalWidth |-> g.maxX - startX,
              totalHeight |-> g.maxY - startY]

\* positions.set(id, pos) for every entry of groupPositions
RECURSIVE SetAll(_, _, _)
SetAll(positions, groupPositions, k) ==
    IF k > Len(groupPositions) THEN positions
    ELSE SetAll(MapSet(positions, groupPositions[k].id, groupPositions[k]),
                groupPositions, k + 1)

\* mutant: the groups are set apart by the spacing, not twice the spacing
RECURSIVE StackGroups_SingleSpacing(_, _, _, _)
StackGroups_SingleSpacing(groupList, k, l, settings) ==
    IF k > Len(groupList) THEN l
    ELSE LET grid == LayoutComponentsInGrid(groupList[k].comps, 0, l.currentY, settings)
             group == [name |-> groupList[k].name,
                       componentIds |-> [m \in 1..Len(groupList[k].comps) |->
                                            groupList[k].comps[m].id],
                       x |-> 0, y |-> l.currentY,
                       width |-> grid.totalWidth, height |-> grid.totalHeight]
         IN  StackGroups_SingleSpacing(groupList, k + 1,
                [positions |-> SetAll(l.positions, grid.positions, 1),
                 groups |-> Append(l.groups, group),
                 currentY |-> l.currentY + grid.totalHeight + settings.spacing],
                settings)

\* the loop that lays the groups out one below the other; a group is
\* [name, comps], l the layout so far with its currentY
RECURSIVE StackGroups(_, _, _, _)
StackGroups(groupList, k, l, settings) ==
    IF k > Len(groupList) THEN l
    ELSE LET grid == LayoutComponentsInGrid(groupList[k].comps, 0, l.currentY, settings)
             group == [name |-> groupList[k].name,
                       componentIds |-> [m \in 1..Len(groupList[k].comps) |->
                                            groupList[k].comps[m].id],
                       x |-> 0, y |-> l.currentY,
                       width |-> grid.totalWidth, height |-> grid.totalHeight]
         IN  StackGroups(groupList, k + 1,
                [positions |-> SetAll(l.positions, grid.positions, 1),
                 groups |-> Append(l.groups, group),
                 currentY |-> l.currentY + grid.totalHeight + settings.spacing * 2],
                settings)

\* Math.max(...groups.map((g) => g.width)); groups is not empty
MaxWidth(groups) ==
    CHOOSE w \in {groups[k].width : k \in 1..Len(groups)} :
        \A k \in 1..Len(groups) : groups[k].width <= w

StackedLayout(groupList, settings) ==
    LET l == StackGroups(groupList, 1,
                         [positions |-> <<>>, groups |-> <<>>, currentY |-> 0], settings)
    IN  [positions |-> l.positions, groups |-> l.groups,
         totalWidth |-> MaxWidth(l.groups), totalHeight |-> l.currentY]

\* the entries of comps that stand at level, in their order
AtLevel(comps, level) ==
    LET Test(c) == c.level = level IN SelectSeq(comps, Test)

\* mutant: the else branch is taken for the variant sets too
OfType_SetsInBoth(comps, isSet) ==
    LET Test(c) == c.type = "COMPONENT_SET" IN
    IF isSet THEN SelectSeq(comps, Test) ELSE comps

OfType(comps, isSet) ==
    LET Test(c) == (c.type = "COMPONENT_SET") = isSet IN SelectSeq(comps, Test)

\* the levels present, ascending, each with its components
RECURSIVE LevelGroups(_, _, _)
LevelGroups(comps, level, top) ==
    IF level > top THEN <<>>
    ELSE (IF Len(AtLevel(comps, level)) > 0
          THEN <<[name |-> "Level " \o ToString(level), comps |-> AtLevel(comps, level)]>>
          ELSE <<>>) \o LevelGroups(comps, level + 1, top)

CalculateHierarchicalLayout(comps, settings) ==
    StackedLayout(LevelGroups(comps, 0, MaxLevel), settings)

CalculateTypeBasedLayout(comps, settings) ==
    StackedLayout(
        (IF Len(OfType(comps, TRUE)) > 0
         THEN <<[name |-> "Variant Sets", comps |-> OfType(comps, TRUE)]>> ELSE <<>>)
        \o (IF Len(OfType(comps, FALSE)) > 0
            THEN <<[name |-> "Components", comps |-> OfType(comps, FALSE)]>> ELSE <<>>),
        settings)

CalculateFlatLayout(comps, settings) ==
    LET grid == LayoutComponentsInGrid(comps, 0, 0, settings)
    IN  [positions |-> grid.positions,
         groups |-> <<[name |-> "All Components",
                       componentIds |-> [m \in 1..Len(comps) |-> comps[m].id],
                       x |-> 0, y |-> 0,
                       width |-> grid.totalWidth, height |-> grid.totalHeight]>>,
         totalWidth |-> grid.totalWidth, totalHeight |-> grid.totalHeight]

CalculateSelectionBasedLayout(comps, settings) == CalculateFlatLayout(comps, settings)

CalculateLayout(comps, settings) ==
    IF Len(comps) = 0
    THEN [positions |-> <<>>, groups |-> <<>>, totalWidth |-> 0, totalHeight |-> 0]
    ELSE CASE settings.groupingMethod = "hierarchy" ->
                CalculateHierarchicalLayout(comps, settings)
           [] settings.groupingMethod = "type" -> CalculateTypeBasedLayout(comps, settings)
           [] settings.groupingMethod = "flat" -> CalculateFlatLayout(comps, settings)
           [] OTHER -> CalculateSelectionBasedLayout(comps, settings)

(***************************************************************************)
(* The layout specification: one calculateLayout call on a component map   *)
(* of up to MaxComps entries of either type at levels 0..MaxLevel.         *)
(***************************************************************************)
ComponentKinds == [type : {"COMPONENT", "COMPONENT_SET"}, level : 0..MaxLevel]

LayoutComponents ==
    UNION {{[k \in 1..n |-> [id |-> "c" \o ToString(k), type |-> kinds[k].type,
                             level |-> kinds[k].level]] :
               kinds \in [1..n -> ComponentKinds]} : n \in 0..MaxComps}

LayoutSettings ==
    [layoutType : {"grid", "list"}, gridColumns : 1..MaxColumns, spacing : 0..MaxSpacing,
     groupingMethod : {"hierarchy", "selection", "type", "flat"}]

InitLayout ==
    /\ PluginAtRest
    /\ NoTransfers
    /\ progressTracker = NewTracker /\ spacingCall = NoCall /\ traversal = NoCall
    /\ throttled = NoCall /\ settingsStore = NoCall
    /\ \E comps \in LayoutComponents, settings \in LayoutSettings :
          layoutCall = [pc |-> "called", components |-> comps, settings |-> settings]

CalculateLayoutCall ==
    /\ layoutCall.pc = "called"
    /\ layoutCall' = [pc |-> "returned", components |-> layoutCall.components,
                      settings |-> layoutCall.settings,
                      result |-> CalculateLayout(layoutCall.components, layoutCall.settings)]
    /\ UNCHANGED <<restVars, progressTracker, spacingCall, traversal, throttled, settingsStore>>

NextLayout == CalculateLayoutCall

SpecLayout == InitLayout /\ [][NextLayout]_vars

\* C16: for a non-empty component map under grid layout, with any grouping
\* method, calculateLayout returns totalWidth > 0 and totalHeight > 0 and a
\* position for every component, no two of them the same.
C16_GridLayoutSound ==
    /\ layoutCall.pc = "returned"
    /\ Len(layoutCall.components) > 0
    /\ layoutCall.settings.layoutType = "grid"
    => LET r == layoutCall.result
       IN  /\ r.totalWidth > 0 /\ r.totalHeight > 0
           /\ MapKeys(r.positions) = MapKeys(layoutCall.components)
           /\ \A j, k \in 1..Len(r.positions) :
                 j # k => <<r.positions[j].x, r.positions[j].y>>
                          # <<r.positions[k].x, r.positions[k].y>>

\* three components in two levels, two columns: the second and the third
\* share a level and a row
C16_Witness ==
    /\ layoutCall.pc = "returned"
    /\ layoutCall.settings.layoutType = "grid"
    /\ layoutCall.settings.groupingMethod = "hierarchy"
    /\ layoutCall.settings.gridColumns = 2
    /\ Len(layoutCall.components) = 3
    /\ Len(layoutCall.result.groups) = 2
    /\ layoutCall.result.positions[2].y = layoutCall.result.positions[3].y

(***************************************************************************)
(* The spacing specification: one calculateOptimalSpacing call.  Spacings  *)
(* are counted in halves, so that 1.5 times a spacing is a whole number:   *)
(* the call gets defaultSpacing = base and its result stands for           *)
(* result / 2.                                                             *)
(***************************************************************************)
\* calculateOptimalSpacing(componentCount, defaultSpacing), in halves
CalculateOptimalSpacing(componentCount, defaultSpacing) ==
    IF componentCount > 50 THEN defaultSpacing * 3
    ELSE IF componentCount > 100 THEN defaultSpacing * 4
    ELSE defaultSpacing * 2

InitSpacing ==
    /\ PluginAtRest
    /\ NoTransfers
    /\ progressTracker = NewTracker /\ layoutCall = NoCall /\ traversal = NoCall
    /\ throttled = NoCall /\ settingsStore = NoCall
    /\ \E count \in 0..MaxCount, base \in 0..MaxBase :
          spacingCall = [pc |-> "called", componentCount |-> count, defaultSpacing |-> base]

CalculateOptimalSpacingCall ==
    /\ spacingCall.pc = "called"
    /\ spacingCall' = [pc |-> "returned", componentCount |-> spacingCall.componentCount,
                       defaultSpacing |-> spacingCall.defaultSpacing,
                       result |-> CalculateOptimalSpacing(spacingCall.componentCount,
                                                          spacingCall.defaultSpacing)]
    /\ UNCHANGED <<restVars, progressTracker, layoutCall, traversal, throttled, settingsStore>>

NextSpacing == CalculateOptimalSpacingCall

SpecSpacing == InitSpacing /\ [][NextSpacing]_vars

\* C17: calculateOptimalSpacing(count, base) is base for count <= 50,
\* 1.5 * base for 50 < count <= 100 and 2 * base for count > 100 (here in
\* halves: 2, 3 and 4 times base).
C17_SpacingSteps ==
    spacingCall.pc = "returned" =>
        spacingCall.result =
            spacingCall.defaultSpacing *
                (IF spacingCall.componentCount <= 50 THEN 2
                 ELSE IF spacingCall.componentCount <= 100 THEN 3 ELSE 4)

(***************************************************************************)
(* The history specification: addHistoryEntry and clearHistory called one  *)
(* at a time, each call running to its end; a clientStorage call may fail. *)
(* An entry carries the tick of the clock at which it was made as its id.  *)
(***************************************************************************)
\* loadHistory: the stored history, or [] when getAsync fails
LoadHistory(stored, loadOk) == IF loadOk THEN stored ELSE <<>>

\* what addHistoryEntry hands to saveHistory, and saveHistory to setAsync
AddHistoryEntry(stored, entry, loadOk) ==
    TrimHistory(<<entry>> \o LoadHistory(stored, loadOk))

NewEntry(stored) ==
    [id |-> IF stored = <<>> THEN 1 ELSE stored[1].id + 1,
     componentIds |-> <<"A">>, status |-> "success"]

InitHistory ==
    /\ PluginAtRest
    /\ currentCancellationToken = 0
    /\ xfer = [r \in Runs |-> NoTransfer]
    /\ pages = <<ScenePage>>
    /\ currentPage = 1
    /\ history \in {<<>>, <<OldEntry>>}
    /\ NoUnits

historyRest ==
    <<sceneVars, analyzerVars, batchVars, currentCancellationToken, xfer, pages,
      currentPage, unitVars>>

\* addHistoryEntry(entry); when setAsync fails saveHistory throws and the
\* stored history stays
AddHistoryEntryCall(loadOk, saveOk) ==
    /\ NewEntry(history).id <= MaxEntryId
    /\ history' = IF saveOk THEN AddHistoryEntry(history, NewEntry(history), loadOk)
                  ELSE history
    /\ UNCHANGED historyRest

\* clearHistory()
ClearHistoryCall(saveOk) ==
    /\ history' = IF saveOk THEN TrimHistory(<<>>) ELSE history
    /\ UNCHANGED historyRest

NextHistory ==
    \/ \E loadOk, saveOk \in BOOLEAN : AddHistoryEntryCall(loadOk, saveOk)
    \/ \E saveOk \in BOOLEAN : ClearHistoryCall(saveOk)

SpecHistory == InitHistory /\ [][NextHistory]_vars

\* the log holds at most 50 entries, the most recent first
HistoryCapped(h) ==
    /\ Len(h) <= MAX_HISTORY_ENTRIES
    /\ \A k \in 1..(Len(h) - 1) : h[k].id > h[k + 1].id

\* C18: every call leaves a log of at most 50 entries, most recent first,
\* and a call that changes a full log without emptying it has put one entry
\* in front and dropped the oldest only.
C18_CappedFifo ==
    [][/\ HistoryCapped(history')
       /\ Len(history) = MAX_HISTORY_ENTRIES /\ history' # history /\ history' # <<>> =>
             history' = <<history'[1]>> \o SubSeq(history, 1, MAX_HISTORY_ENTRIES - 1)]_vars

\* the same without the calls in which clientStorage fails to read
C18_WhenReadsSucceed ==
    [][(\E saveOk \in BOOLEAN : AddHistoryEntryCall(TRUE, saveOk) \/ ClearHistoryCall(saveOk)) =>
          /\ HistoryCapped(history')
          /\ Len(history) = MAX_HISTORY_ENTRIES /\ history' # history /\ history' # <<>> =>
                history' = <<history'[1]>> \o SubSeq(history, 1, MAX_HISTORY_ENTRIES - 1)]_vars

(***************************************************************************)
(* Instances whose main definition is absent (Spec).                       *)
(***************************************************************************)
\* the instances the analysis comes across: those the selection holds and
\* those nested inside a component or variant set it has processed
EncounteredInstances ==
    SelectionInstances(analysis.selection)
        \cup UNION {InstancesInside(d) : d \in ResultKeys}

MissingWarned(i) ==
    \E k \in WarningsAbout(i) : Result.warnings[k] = Warning("MISSING_DEFINITION", i)

\* C19: every instance the analysis comes across whose main definition is
\* absent, selected, inside a selected container or nested inside a
\* processed component or variant, has a MISSING_DEFINITION warning.
C19_MissingAlwaysWarned ==
    Returned =>
      \A i \in EncounteredInstances : mainComponent[i] = Null => MissingWarned(i)

\* the same for the instances the selection itself holds
C19_SelectionInstancesWarned ==
    Returned =>
      \A i \in SelectionInstances(analysis.selection) :
          mainComponent[i] = Null => MissingWarned(i)

(***************************************************************************)
(* The analysis result across a transfer that fails (SpecTransfer).        *)
(***************************************************************************)
\* run t has ended with a TRANSFER_ERROR, a cancellation included
EndedInError(t) == Done(t) /\ xfer[t].error # ""

\* what a TransferComponents request with the ids of run t would take from
\* the analysis result the plugin holds now
ComponentsOfRetry(t) ==
    IF currentAnalysisResult = <<>> THEN <<>>
    ELSE FilterComponents(xfer[t].componentIds, 1,
                          currentAnalysisResult[1].components, <<>>)

\* C20: no step of a TransferComponents or CancelOperation request changes
\* the analysis result the plugin holds, and after a request that ended in
\* an error or a cancellation a request with the same ids finds the result
\* and takes the same components from it.
C20_AnalysisKept ==
    [][/\ analysis' = analysis => currentAnalysisResult' = currentAnalysisResult
       /\ \A t \in Runs :
            EndedInError(t)' /\ xfer'[t].components # <<>> =>
                /\ currentAnalysisResult' # <<>>
                /\ ComponentsOfRetry(t)' = xfer'[t].components]_vars

\* a transfer of two components has been cancelled between its batches
C20_Witness ==
    \E t \in Runs :
        /\ EndedInError(t) /\ IsCancellation(xfer[t].error)
        /\ Len(xfer[t].components) = 2
        /\ currentAnalysisResult # <<>>

\* a transfer has failed for another reason than a cancellation
C20_WitnessFailed ==
    \E t \in Runs :
        /\ EndedInError(t) /\ ~IsCancellation(xfer[t].error)
        /\ xfer[t].components # <<>>

(***************************************************************************)
(* Requests that cannot start (SpecTransfer).                              *)
(***************************************************************************)
\* the plugin holds no analysis result, or none of the ids is a key of it
NothingToTransfer(componentIds) ==
    \/ currentAnalysisResult = <<>>
    \/ \A k \in 1..Len(componentIds) :
          ~MapHas(currentAnalysisResult[1].components, componentIds[k])

\* C21: a TransferComponents request made with no analysis result, or with
\* ids that match no entry of it, ends in its first step with one
\* TRANSFER_ERROR message and changes nothing else: no page is created or
\* cleared, no clone is made, no batch is started and the history stays.
C21_RejectedWithoutEffect ==
    [][\A t \in Runs :
          xfer[t].pc = "idle" /\ xfer'[t].pc # "idle"
              /\ NothingToTransfer(xfer'[t].componentIds) =>
             /\ xfer'[t].pc = "done" /\ xfer'[t].error # ""
             /\ xfer'[t].live = <<>> /\ xfer'[t].collectedNodes = <<>>
             /\ uiMessages' = Append(uiMessages, TransferError(t, xfer'[t].error))
             /\ pages' = pages /\ history' = history /\ batch' = batch
             /\ currentPage' = currentPage /\ selection' = selection
             /\ currentAnalysisResult' = currentAnalysisResult
             /\ currentCancellationToken' = 0]_vars

\* a request naming an unknown id was rejected although an analysis result
\* is there and a Transfer page with children exists
C21_Witness ==
    \E t \in Runs :
        /\ Done(t) /\ xfer[t].componentIds = <<"unknown">>
        /\ xfer[t].settings.transferPageBehavior = "replace"
        /\ currentAnalysisResult # <<>>
        /\ Len(pages) = 2 /\ pages[2].children = OldChildren
        /\ xfer[t].error = "No valid components selected for transfer"

(***************************************************************************)
(* The traversal specification: traverseNode called on the root of a tree  *)
(* with a callback that records the node it is handed.  Nodes are numbered *)
(* 1..n, node 1 is the root; a frame of the call stack is the node of the  *)
(* call and the index of the child the for loop is at (0: the callback has *)
(* not been called yet).                                                   *)
(***************************************************************************)
\* the trees: every node but the root has a parent of a smaller number, and
\* the children of a node stand in ascending or descending order
ParentMaps(n) == {p \in [2..n -> 1..n] : \A i \in 2..n : p[i] < i}

RECURSIVE Ascending(_, _, _)
Ascending(S, from, to) ==
    IF from > to THEN <<>>
    ELSE (IF from \in S THEN <<from>> ELSE <<>>) \o Ascending(S, from + 1, to)

Reverse(s) == [k \in 1..Len(s) |-> s[Len(s) + 1 - k]]

ChildrenOf(n, p, descending) ==
    [i \in 1..n |->
        LET kids == Ascending({c \in 2..n : p[c] = i}, 2, n)
        IN  IF descending THEN Reverse(kids) ELSE kids]

Trees ==
    UNION {{ChildrenOf(n, p, d) : p \in ParentMaps(n), d \in BOOLEAN} : n \in 1..MaxNodes}

InitTraverse ==
    /\ PluginAtRest
    /\ NoTransfers
    /\ progressTracker = NewTracker /\ layoutCall = NoCall /\ spacingCall = NoCall
    /\ throttled = NoCall /\ settingsStore = NoCall
    /\ \E tree \in Trees :
          traversal = [pc |-> "running", children |-> tree,
                       stack |-> <<[node |-> 1, k |-> 0]>>, visited |-> <<>>]

Top(tr) == tr.stack[Len(tr.stack)]

\* callback(node)
TraverseCallback(tr) ==
    [tr EXCEPT !.visited = Append(@, Top(tr).node), !.stack[Len(tr.stack)].k = 1]

\* mutant: the loop takes the children from the last to the first
TraverseChild_Backwards(tr) ==
    LET top == Top(tr)
        kids == tr.children[top.node]
    IN  [tr EXCEPT !.stack = Append([@ EXCEPT ![Len(tr.stack)].k = top.k + 1],
                                    [node |-> kids[Len(kids) + 1 - top.k], k |-> 0])]

\* for (const child of node.children) traverseNode(child, callback)
TraverseChild(tr) ==
    LET top == Top(tr)
    IN  [tr EXCEPT !.stack = Append([@ EXCEPT ![Len(tr.stack)].k = top.k + 1],
                                    [node |-> tr.children[top.node][top.k], k |-> 0])]

\* the loop is over: the call returns to its caller
TraverseReturn(tr) ==
    [tr EXCEPT !.stack = SubSeq(@, 1, Len(@) - 1),
               !.pc = IF Len(tr.stack) = 1 THEN "returned" ELSE "running"]

traverseRest == <<restVars, progressTracker, layoutCall, spacingCall, throttled, settingsStore>>

TraverseNodeCallback ==
    /\ traversal.pc = "running" /\ Top(traversal).k = 0
    /\ traversal' = TraverseCallback(traversal)
    /\ UNCHANGED traverseRest

TraverseNodeChild ==
    /\ traversal.pc = "running"
    /\ Top(traversal).k \in 1..Len(traversal.children[Top(traversal).node])
    /\ traversal' = TraverseChild(traversal)
    /\ UNCHANGED traverseRest

TraverseNodeReturn ==
    /\ traversal.pc = "running"
    /\ Top(traversal).k > Len(traversal.children[Top(traversal).node])
    /\ traversal' = TraverseReturn(traversal)
    /\ UNCHANGED traverseRest

NextTraverse == TraverseNodeCallback \/ TraverseNodeChild \/ TraverseNodeReturn

SpecTraverse == InitTraverse /\ [][NextTraverse]_vars

RECURSIVE Subtree(_, _)
Subtree(tree, n) ==
    {n} \cup UNION {Subtree(tree, tree[n][j]) : j \in 1..Len(tree[n])}

\* the visits are the pre-order of the tree, every node once
PreOrderOnce(tree, visited) ==
    LET At(n) == CHOOSE k \in 1..Len(visited) : visited[k] = n
    IN  /\ Len(visited) = Len(tree)
        /\ \A n \in DOMAIN tree : \E k \in 1..Len(visited) : visited[k] = n
        /\ \A n \in DOMAIN tree : \A j \in 1..Len(tree[n]) :
              /\ At(n) < At(tree[n][j])
              /\ j < Len(tree[n]) =>
                    \A d \in Subtree(tree, tree[n][j]) : At(d) < At(tree[n][j + 1])

\* C22: when traverseNode has returned, the callback has been called exactly
\* once for the root and for each descendant, every parent before its
\* children, and the whole subtree of a child before the sibling that
\* follows it; no step of the call changes the tree.
C22_PreOrderOnce ==
    [][traversal.pc # "none" =>
         /\ traversal'.children = traversal.children
         /\ traversal'.pc = "returned" =>
                PreOrderOnce(traversal'.children, traversal'.visited)]_vars

\* the traversal of the tree of the test has returned: a root with two
\* children, the first of them with a child of its own
C22_Witness ==
    /\ traversal.pc = "returned"
    /\ traversal.children = <<<<2, 3>>, <<4>>, <<>>, <<>>>>
    /\ traversal.visited = <<1, 2, 4, 3>>

(***************************************************************************)
(* The children lists of the analysis (Spec).                              *)
(***************************************************************************)
NoIdTwice(s) == \A j, k \in 1..Len(s) : s[j] = s[k] => j = k

\* C23: in every ComponentInfo of the result the children list holds no id
\* twice, for a component as for a component set.
C23_ChildrenDeduplicated ==
    Returned =>
      \A k \in 1..Len(Result.components) : NoIdTwice(Result.components[k].children)

\* the same for the component sets alone
C23_SetChildrenDeduplicated ==
    Returned =>
      \A k \in 1..Len(Result.components) :
          Result.components[k].type = "COMPONENT_SET" =>
              NoIdTwice(Result.components[k].children)

(***************************************************************************)
(* Definitions that refer to each other (Spec).                            *)
(***************************************************************************)
\* C24: analyzeSelection returns on every scene, those included in which a
\* component holds an instance of itself or two components hold instances
\* of each other: the recursion never outgrows the stack, and no definition
\* is entered in the map a second time.
C24_TerminatesOnCycles ==
    Analyzed =>
      /\ ~Result.threw
      /\ \A d \in Definitions : Result.setCalls[d] <= 1

\* A holds an instance of itself and one of B, B holds an instance of A, and
\* the analysis has returned with both in the map
C24_Witness ==
    /\ Returned
    /\ mainComponent["iA1"] = "A" /\ mainComponent["iA2"] = "B"
    /\ mainComponent["iB1"] = "A"
    /\ {"A", "B"} \subseteq ResultKeys

(***************************************************************************)
(* The collection specification: collectAndTransferComponents driven with  *)
(* a progress callback of the caller's, which may cancel the token when    *)
(* tracker.increment hands it the progress of a clone.  The selection has  *)
(* been analysed; the call is followed up to its return.                   *)
(***************************************************************************)
InitCollect ==
    /\ FixedScene
    /\ LET o == [includeHidden |-> FALSE, includeExternal |-> FALSE]
           result == AnalyzeSelection(selection, o)
       IN  /\ analysis = [via |-> "handler", selection |-> selection, options |-> o,
                          result |-> result]
           /\ currentAnalysisResult = <<result>>
    /\ uiMessages = <<[type |-> "ANALYSIS_COMPLETE"]>>
    /\ batch = [r \in Runs |-> NoBatch]
    /\ tokenCancelled = [r \in Runs |-> FALSE]
    /\ currentCancellationToken = 0
    /\ xfer = [r \in Runs |-> NoTransfer]
    /\ pages = <<ScenePage>> /\ history = <<>>
    /\ currentPage = 1
    /\ NoUnits

\* the processor clones the component and the callback cancels the token
TransferItemCallbackCancels(t) == TransferItemWith(t, "ok", TRUE)

NextCollect ==
    \/ \E t \in Runs, ids \in Requests, settings \in TransferSettings :
          /\ settings.transferPageBehavior = "append"
          /\ TransferRequest(t, ids, settings, TRUE)
    \/ \E t \in Runs : TransferLoop(t)
    \/ \E t \in Runs, status \in LiveStatuses : TransferItem(t, status)
    \/ \E t \in Runs : TransferItemCallbackCancels(t)
    \/ \E t \in Runs : TransferProgress(t)
    \/ \E t \in Runs : TransferResume(t)
    \/ \E t \in Runs : TransferCollected(t)
    \/ \E t \in Runs : TransferRejected(t)

SpecCollect == InitCollect /\ [][NextCollect]_vars

(***************************************************************************)
(* Cancellation and the batches of a transfer (SpecCollect).               *)
(***************************************************************************)
\* the lookups made for the items handed to the processor so far
ProcessedToOutcome(t) ==
    /\ Len(xfer[t].live) = Len(batch[t].results)
    /\ \A k \in 1..Len(batch[t].results) :
          /\ xfer[t].live[k].id = batch[t].items[k].id
          /\ \/ /\ xfer[t].live[k].status = "ok"
                /\ Cardinality(AppendedClones(t, xfer[t].live[k].id)) = 1
                /\ WarningsOf(t, xfer[t].live[k].id) = {}
             \/ /\ xfer[t].live[k].status # "ok"
                /\ Cardinality(WarningsOf(t, xfer[t].live[k].id)) = 1
                /\ AppendedClones(t, xfer[t].live[k].id) = {}

\* C25: a transfer is stopped by a cancellation only where a batch would
\* start: the items of every batch that has started have all been handed to
\* the processor and each has its outcome, a clone or a warning.
C25_CancelAtBatchBoundary ==
    \A t \in Runs :
        batch[t].pc = "rejected" /\ IsCancellation(batch[t].error) =>
            /\ Len(batch[t].calls) = batch[t].i
            /\ Len(batch[t].results) = batch[t].i
            /\ ProcessedToOutcome(t)

\* the plugin's handlers: a transfer of three components in batches of two
\* is cancelled during the yield after its first batch, both items of which
\* have their outcome
C25_CancelledAtYield ==
    \E t \in Runs :
        /\ batch[t].pc = "rejected" /\ IsCancellation(batch[t].error)
        /\ PBTotal(batch[t]) = 3 /\ batch[t].batchSize = 2
        /\ Len(batch[t].results) = 2
        /\ xfer[t].live[2].status = "locked"

(***************************************************************************)
(* The yields of processBatch (SpecBatch).                                 *)
(***************************************************************************)
\* ceil(n / b)
CeilDiv(n, b) == (n + b - 1) \div b

\* the batches of the call that are followed by another batch
BatchesWithSuccessor(pb) == Max(0, CeilDiv(PBTotal(pb), pb.batchSize) - 1)

EnginePositions(t) == CalculateLayout(xfer[t].components, xfer[t].settings).positions

\* C27: the position given to every clone in phase 3 is the one
\* calculateLayout computes, from the component map and the settings of the
\* request, for the component it is a clone of.
C27_PositionsFromLayoutEngine ==
    \A t \in Runs :
        Collected(t) =>
            \A k \in 1..Len(xfer[t].collectedNodes) :
                LET pos == xfer[t].positions[k]
                    engine == MapGet(EnginePositions(t), xfer[t].collectedNodes[k].of)
                IN  pos.id = xfer[t].collectedNodes[k].id
                        /\ pos.x = engine.x /\ pos.y = engine.y

(***************************************************************************)
(* The phases reported during a transfer (SpecTransfer).                   *)
(***************************************************************************)
\* the progress stream of run t: the phases of its TRANSFER_PROGRESS messages
PhasesReported(t) ==
    LET IsProgress(m) == m.type = "TRANSFER_PROGRESS" /\ m.run = t
        stream == SelectSeq(uiMessages, IsProgress)
    IN  [k \in 1..Len(stream) |-> stream[k].progress.phase]

PhaseRank(phase) ==
    CASE phase = "analyzing" -> 0
      [] phase = "collecting" -> 1
      [] phase = "organizing" -> 2
      [] OTHER -> 3

ForwardOnly(phases) ==
    \A j, k \in 1..Len(phases) : j < k => PhaseRank(phases[j]) <= PhaseRank(phases[k])

\* C28: the progress stream of a transfer never goes back to an earlier
\* phase, and when the four phases of the orchestrator have run it holds
\* four different phases, one for each of them.
C28_FourDistinctPhases ==
    \A t \in Runs :
        /\ xfer[t].pc # "idle" => ForwardOnly(PhasesReported(t))
        /\ Collected(t) => Cardinality(SeqRange(PhasesReported(t))) = 4

\* the phases of the stream never go back
C28_ForwardOnly ==
    \A t \in Runs : xfer[t].pc # "idle" => ForwardOnly(PhasesReported(t))

(***************************************************************************)
(* The extent of a layout (SpecLayout).                                    *)
(***************************************************************************)
\* the largest of a non-empty set of numbers
MaxOf(S) == CHOOSE m \in S : \A n \in S : n <= m

\* the extent of the union of the bounding boxes of the groups
GroupsRight(groups) == MaxOf({groups[k].x + groups[k].width : k \in 1..Len(groups)})
GroupsBottom(groups) == MaxOf({groups[k].y + groups[k].height : k \in 1..Len(groups)})

\* C29: for a component map that is not empty, totalWidth and totalHeight
\* are the extent of the union of the group bounding boxes, with every
\* grouping method.
C29_TotalIsUnionOfGroups ==
    layoutCall.pc = "returned" /\ Len(layoutCall.components) > 0 =>
        LET r == layoutCall.result
        IN  /\ r.totalWidth = GroupsRight(r.groups)
            /\ r.totalHeight = GroupsBottom(r.groups)

\* the same for the width alone, and for the height where the groups are not
\* stacked (flat and selection) or the spacing is 0
C29_UnionWhereNoGap ==
    layoutCall.pc = "returned" /\ Len(layoutCall.components) > 0 =>
        LET r == layoutCall.result
        IN  /\ r.totalWidth = GroupsRight(r.groups)
            /\ layoutCall.settings.groupingMethod \in {"flat", "selection"}
                  \/ layoutCall.settings.spacing = 0 =>
                      r.totalHeight = GroupsBottom(r.groups)
            /\ r.totalHeight = GroupsBottom(r.groups)
                  + (IF layoutCall.settings.groupingMethod \in {"flat", "selection"}
                     THEN 0 ELSE 2 * layoutCall.settings.spacing)

(***************************************************************************)
(* The groups of the hierarchy grouping (SpecLayout).                      *)
(***************************************************************************)
LevelsPresent(comps) == {comps[k].level : k \in 1..Len(comps)}

\* the levels present in ascending order
AscendingLevels(comps) ==
    CHOOSE s \in [1..Cardinality(LevelsPresent(comps)) -> LevelsPresent(comps)] :
        \A j, k \in DOMAIN s : j < k => s[j] < s[k]

\* C30: under hierarchy grouping there is one group for each level present,
\* named 'Level n' and holding the components of level n, the groups stand in
\* ascending order of level, the first at y = 0 and each other one at the y of
\* the group before it plus that group's height plus twice the spacing, so
\* that no group begins above the lower edge of the group before it.
C30_LevelGroupsStacked ==
    /\ layoutCall.pc = "returned"
    /\ Len(layoutCall.components) > 0
    /\ layoutCall.settings.groupingMethod = "hierarchy"
    => LET comps == layoutCall.components
           groups == layoutCall.result.groups
           levels == AscendingLevels(comps)
       IN  /\ Len(groups) = Cardinality(LevelsPresent(comps))
           /\ \A k \in 1..Len(groups) :
                 /\ groups[k].name = "Level " \o ToString(levels[k])
                 /\ groups[k].componentIds =
                       [m \in 1..Len(AtLevel(comps, levels[k])) |->
                           AtLevel(comps, levels[k])[m].id]
                 /\ groups[k].y =
                       IF k = 1 THEN 0
                       ELSE groups[k - 1].y + groups[k - 1].height
                                + 2 * layoutCall.settings.spacing
                 /\ k > 1 => groups[k - 1].y + groups[k - 1].height <= groups[k].y

\* components of levels 1 and 0 handed over in that order, with spacing 1:
\* 'Level 0' comes first and 'Level 1' stands 202 below it
C30_Witness ==
    /\ layoutCall.pc = "returned"
    /\ layoutCall.settings.groupingMethod = "hierarchy"
    /\ layoutCall.settings.spacing = 1
    /\ Len(layoutCall.components) = 2
    /\ layoutCall.components[1].level = 1 /\ layoutCall.components[2].level = 0
    /\ Len(layoutCall.result.groups) = 2
    /\ layoutCall.result.groups[1].name = "Level 0"
    /\ layoutCall.result.groups[2].name = "Level 1"
    /\ layoutCall.result.groups[2].y = 202

(***************************************************************************)
(* C31: the statistics of an analysis result against its component map.    *)
(***************************************************************************)
\* the number of entries m[k..] that a test lets through, counted one entry
\* at a time as the loop of calculateStats does
RECURSIVE Tally(_, _, _)
Tally(m, k, what) ==
    IF k > Len(m) THEN 0
    ELSE (IF \/ what = "main" /\ Len(m[k].children) > 0
             \/ what = "child" /\ Len(m[k].children) = 0
             \/ what = "set" /\ m[k].type = "COMPONENT_SET"
             \/ what = "external" /\ ~m[k].isLocal
             \/ what = "hidden" /\ m[k].isHidden
             \/ what = "locked" /\ m[k].isLocked
          THEN 1 ELSE 0) + Tally(m, k + 1, what)

StatsMatch(m, stats) ==
    /\ stats.totalComponents = Cardinality(MapKeys(m))
    /\ stats.mainComponents + stats.childComponents = stats.totalComponents
    /\ stats.mainComponents = Tally(m, 1, "main")
    /\ stats.childComponents = Tally(m, 1, "child")
    /\ stats.variantSets = Tally(m, 1, "set")
    /\ stats.externalComponents = Tally(m, 1, "external")
    /\ stats.hiddenComponents = Tally(m, 1, "hidden")
    /\ stats.lockedComponents = Tally(m, 1, "locked")

\* C31: in every analysis result, stats.totalComponents is the size of the
\* component map, mainComponents + childComponents = totalComponents, the
\* entries counted as main are exactly those with a non-empty children list,
\* and variantSets, externalComponents, hiddenComponents and lockedComponents
\* are the numbers of entries of type COMPONENT_SET, not local, hidden and
\* locked.
C31_StatsMatchMap ==
    Returned => StatsMatch(Result.components, Result.stats)

\* a result with a main component, a child-only one, a variant set and a
\* locked entry
C31_Witness ==
    /\ Returned
    /\ Result.stats.mainComponents >= 1
    /\ Result.stats.childComponents >= 1
    /\ Result.stats.variantSets >= 1
    /\ Result.stats.lockedComponents >= 1
    /\ Result.stats.totalComponents >= 3

C31_WitnessFlags ==
    /\ Returned
    /\ Result.stats.externalComponents >= 1
    /\ Result.stats.hiddenComponents >= 1

(***************************************************************************)
(* The throttle specification (batcher.ts): one function made by           *)
(* throttle(func, intervalMs), called at any times.  now is Date.now();    *)
(* lastCall and the timer are the closure of the function; invocations     *)
(* records every run of func: when, and whether the call or the timer ran  *)
(* it.  A timer runs its callback when it is due or later, when the event  *)
(* loop gets to it.                                                        *)
(***************************************************************************)
\* Date.now() when the function is made: far more than an interval after 0
ClockStart == MaxInterval

Throttle(intervalMs) ==
    [pc |-> "made", intervalMs |-> intervalMs, now |-> ClockStart, lastCall |-> 0,
     timerPending |-> FALSE, timerDue |-> 0, invocations |-> <<>>]

InitThrottle ==
    /\ PluginAtRest
    /\ NoTransfers
    /\ progressTracker = NewTracker /\ layoutCall = NoCall /\ spacingCall = NoCall
    /\ traversal = NoCall /\ settingsStore = NoCall
    /\ \E intervalMs \in 1..MaxInterval : throttled = Throttle(intervalMs)

\* the function throttle returns, called at th.now
Throttled(th) ==
    IF th.now - th.lastCall >= th.intervalMs
    THEN [th EXCEPT !.lastCall = th.now,
                    !.invocations = Append(@, [at |-> th.now, by |-> "call"])]
    ELSE [th EXCEPT !.timerPending = TRUE,
                    !.timerDue = th.now + (th.intervalMs - (th.now - th.lastCall))]

\* the callback handed to setTimeout
ThrottleTimeout(th) ==
    [th EXCEPT !.lastCall = th.now, !.timerPending = FALSE,
               !.invocations = Append(@, [at |-> th.now, by |-> "timer"])]

throttleRest ==
    <<restVars, progressTracker, layoutCall, spacingCall, traversal, settingsStore>>

ThrottledCall ==
    /\ throttled.pc = "made"
    /\ throttled' = Throttled(throttled)
    /\ UNCHANGED throttleRest

ThrottleTimerFires ==
    /\ throttled.pc = "made"
    /\ throttled.timerPending /\ throttled.now >= throttled.timerDue
    /\ throttled' = ThrottleTimeout(throttled)
    /\ UNCHANGED throttleRest

ThrottleTick ==
    /\ throttled.pc = "made"
    /\ throttled.now < ClockStart + MaxTime
    /\ throttled' = [throttled EXCEPT !.now = @ + 1]
    /\ UNCHANGED throttleRest

NextThrottle == ThrottledCall \/ ThrottleTimerFires \/ ThrottleTick

SpecThrottle == InitThrottle /\ [][NextThrottle]_vars

\* C32: any two invocations of func are at least intervalMs apart, the
\* invocations made by the trailing timer included.
C32_AtLeastIntervalApart ==
    throttled.pc = "made" =>
        \A k \in 1..(Len(throttled.invocations) - 1) :
            throttled.invocations[k + 1].at - throttled.invocations[k].at
                >= throttled.intervalMs

\* what does hold: an invocation made by a call itself comes at least
\* intervalMs after the invocation before it
C32_CallsAtLeastIntervalApart ==
    throttled.pc = "made" =>
        \A k \in 1..(Len(throttled.invocations) - 1) :
            throttled.invocations[k + 1].by = "call" =>
                throttled.invocations[k + 1].at - throttled.invocations[k].at
                    >= throttled.intervalMs

\* a timer that ran func although a call had run it at the very time the
\* timer was due
C32_TimerRightAfterCall ==
    /\ throttled.pc = "made"
    /\ \E k \in 1..(Len(throttled.invocations) - 1) :
          /\ throttled.invocations[k].by = "call"
          /\ throttled.invocations[k + 1].by = "timer"
          /\ throttled.invocations[k + 1].at = throttled.invocations[k].at

(***************************************************************************)
(* The overlap specification: the plugin handling TransferComponents and   *)
(* CancelOperation messages in any interleaving, a second request while    *)
(* the first transfer is suspended included.  The message handler starts   *)
(* handleTransferComponents whenever the event loop hands it the message;  *)
(* nothing in the plugin holds a request back.                             *)
(***************************************************************************)
OverlapRuns == {1, 2}

InitOverlap ==
    /\ FixedScene
    /\ LET o == [includeHidden |-> FALSE, includeExternal |-> FALSE]
           result == AnalyzeSelection(selection, o)
       IN  /\ analysis = [via |-> "handler", selection |-> selection, options |-> o,
                          result |-> result]
           /\ currentAnalysisResult = <<result>>
    /\ uiMessages = <<[type |-> "ANALYSIS_COMPLETE"]>>
    /\ batch = [r \in OverlapRuns |-> NoBatch]
    /\ tokenCancelled = [r \in OverlapRuns |-> FALSE]
    /\ currentCancellationToken = 0
    /\ xfer = [r \in OverlapRuns |-> NoTransfer]
    /\ pages = <<ScenePage>> /\ history = <<>>
    /\ currentPage = 1
    /\ NoUnits

\* the requests: the two components of the selection, just one, or an id the
\* analysis does not hold; appended one per batch
OverlapRequests == {<<"A", "S">>, <<"A">>, <<"unknown">>}

OverlapSettings ==
    {s \in TransferSettings : s.batchSize = 1 /\ s.transferPageBehavior = "append"}

NextOverlap ==
    \/ \E t \in OverlapRuns, ids \in OverlapRequests, settings \in OverlapSettings :
          /\ \A r \in OverlapRuns : r < t => xfer[r].pc # "idle"
          /\ HandleTransferComponents(t, ids, settings, TRUE)
    \/ \E t \in OverlapRuns : TransferLoop(t)
    \/ \E t \in OverlapRuns : TransferItem(t, "ok")
    \/ \E t \in OverlapRuns : TransferProgress(t)
    \/ \E t \in OverlapRuns : TransferResume(t)
    \/ \E t \in OverlapRuns : TransferCollected(t)
    \/ \E t \in OverlapRuns : TransferRejected(t)
    \/ \E t \in OverlapRuns : TransferHistoryLoaded(t, TRUE)
    \/ \E t \in OverlapRuns : TransferHistorySaved(t, TRUE)
    \/ HandleCancelOperation

SpecOverlap == InitOverlap /\ [][NextOverlap]_vars

InProgress(t) == xfer[t].pc \notin {"idle", "done"}

\* C33: in any interleaving of the requests, the plugin's current token is
\* the token of the transfer in progress, from its start to its end, and null
\* when no transfer is in progress, so that a CancelOperation received while
\* a transfer is in progress sets isCancelled on the token this transfer uses;
\* also when a second TransferComponents arrives while the first transfer is
\* suspended at a yield.
C33_CurrentTokenIsTheTransfers ==
    /\ \A t \in DOMAIN xfer : InProgress(t) => currentCancellationToken = t
    /\ (\A t \in DOMAIN xfer : ~InProgress(t)) => currentCancellationToken = 0

\* a CancelOperation has been handled while the first transfer is in
\* progress, and the token of the first transfer is not cancelled: the
\* second request has replaced the current token, or its end has cleared it
C33_CancelMissesFirst ==
    /\ InProgress(1) /\ ~tokenCancelled[1]
    /\ tokenCancelled[2]

C33_TokenClearedUnderFirst ==
    /\ InProgress(1) /\ xfer[2].pc = "done"
    /\ currentCancellationToken = 0

(***************************************************************************)
(* C34: the history entry of a transfer (SpecTransfer).  A transfer        *)
(* completes when its handler posts TRANSFER_COMPLETE; it fails or is      *)
(* cancelled when the handler posts TRANSFER_ERROR.                        *)
(***************************************************************************)
\* the handler of run t returns in this step
Ends(t) == xfer[t].pc # "done" /\ xfer'[t].pc = "done"

Completes(t) == Ends(t) /\ xfer'[t].error = ""

EntriesOf(h, t) == {k \in 1..Len(h) : h[k].id = t}

\* C34: the step in which a transfer completes puts exactly one entry of
\* that transfer into the history, which held none of it before, with status
\* 'warning' if the transfer produced at least one warning and 'success'
\* otherwise; every other step, the end of a transfer that fails or is
\* cancelled included, leaves the history unchanged.
C34_EntryPerCompletedTransfer ==
    [][/\ \A t \in Runs :
            /\ Completes(t) <=>
                  Cardinality(MessagesOf(t, "TRANSFER_COMPLETE")') =
                      Cardinality(MessagesOf(t, "TRANSFER_COMPLETE")) + 1
            /\ Completes(t) =>
                  /\ EntriesOf(history, t) = {}
                  /\ Cardinality(EntriesOf(history', t)) = 1
                  /\ history'[1].id = t
                  /\ history'[1].status =
                        (IF Len(xfer[t].result[1].warnings) > 0
                         THEN "warning" ELSE "success")
       /\ (\A t \in Runs : ~Completes(t)) => history' = history]_vars

\* a transfer has completed with a warning and has its entry, put before the
\* entry of an earlier transfer
C34_Witness ==
    \E t \in Runs :
        /\ xfer[t].pc = "done" /\ xfer[t].error = ""
        /\ MessagesOf(t, "TRANSFER_COMPLETE") # {}
        /\ Len(xfer[t].result[1].warnings) > 0
        /\ Len(history) = 2
        /\ history[1].id = t /\ history[1].status = "warning"
        /\ history[2] = OldEntry

\* a transfer has been cancelled and the history is the one it found
C34_WitnessCancelled ==
    \E t \in Runs :
        /\ EndedInError(t) /\ IsCancellation(xfer[t].error)
        /\ history = <<OldEntry>>

\* the clones are on the page and the entry could not be stored: the handler
\* has posted TRANSFER_ERROR and the history is the one the transfer found
C34_WitnessSaveFailed ==
    \E t \in Runs :
        /\ xfer[t].pc = "done" /\ xfer[t].error = "Failed to save history"
        /\ xfer[t].collectedNodes # <<>>
        /\ history = <<OldEntry>>

(***************************************************************************)
(* The settings specification (storage.ts): loadSettings and               *)
(* updateSettings against the record clientStorage holds.  A settings      *)
(* record is a function from field names to values; of TransferSettings    *)
(* the model keeps two plain fields and the nested shortcuts record with   *)
(* two of its fields.  The stored record is what an earlier version of the *)
(* plugin wrote: any of the fields may be missing, at either level.        *)
(***************************************************************************)
SettingsFields == {"spacing", "batchSize", "shortcuts"}
ShortcutFields == {"analyze", "cancel"}

DEFAULT_SETTINGS ==
    [spacing |-> 200, batchSize |-> 10,
     shortcuts |-> [analyze |-> "Ctrl+T", cancel |-> "Escape"]]

\* the fields D of a record
Restrict(r, D) == [f \in D |-> r[f]]

\* { ...a, ...b }
Spread(a, b) ==
    [f \in DOMAIN a \cup DOMAIN b |-> IF f \in DOMAIN b THEN b[f] ELSE a[f]]

StoredSettings ==
    LET full == [analyze |-> "Ctrl+A", cancel |-> "Ctrl+X"]
        values(sc) == [spacing |-> 100, batchSize |-> 5, shortcuts |-> sc]
    IN  {Restrict(values(Restrict(full, S)), D) :
            S \in SUBSET ShortcutFields, D \in SUBSET SettingsFields}

\* the updates of a caller: Partial<TransferSettings>, a shortcuts record
\* with all its fields when there is one
SettingsUpdates ==
    LET values == [spacing |-> 50, batchSize |-> 20,
                   shortcuts |-> [analyze |-> "Ctrl+U", cancel |-> "Ctrl+Q"]]
    IN  {Restrict(values, D) : D \in SUBSET SettingsFields}

\* loadSettings; stored: <<>> when clientStorage holds nothing under the key
LoadSettings(stored, getOk) ==
    IF getOk /\ stored # <<>> THEN Spread(DEFAULT_SETTINGS, stored[1])
    ELSE DEFAULT_SETTINGS

\* updateSettings up to saveSettings
UpdatedSettings(stored, updates, getOk) == Spread(LoadSettings(stored, getOk), updates)

InitSettings ==
    /\ PluginAtRest
    /\ NoTransfers
    /\ progressTracker = NewTracker /\ layoutCall = NoCall /\ spacingCall = NoCall
    /\ traversal = NoCall /\ throttled = NoCall
    /\ \E stored \in {<<>>} \cup {<<r>> : r \in StoredSettings} :
          settingsStore = [pc |-> "stored", stored |-> stored, call |-> "none"]

settingsRest ==
    <<restVars, progressTracker, layoutCall, spacingCall, traversal, throttled>>

LoadSettingsCall(getOk) ==
    /\ settingsStore.pc = "stored"
    /\ settingsStore' =
          [pc |-> "stored", stored |-> settingsStore.stored, call |-> "loadSettings",
           before |-> settingsStore.stored, getOk |-> getOk,
           returned |-> LoadSettings(settingsStore.stored, getOk)]
    /\ UNCHANGED settingsRest

UpdateSettingsCall(updates, getOk, setOk) ==
    /\ settingsStore.pc = "stored"
    /\ LET updated == UpdatedSettings(settingsStore.stored, updates, getOk)
       IN  settingsStore' =
              [pc |-> "stored",
               stored |-> IF setOk THEN <<updated>> ELSE settingsStore.stored,
               call |-> "updateSettings", before |-> settingsStore.stored,
               updates |-> updates, getOk |-> getOk, setOk |-> setOk,
               returned |-> IF setOk THEN updated ELSE "Failed to save settings"]
    /\ UNCHANGED settingsRest

NextSettings ==
    \/ \E getOk \in BOOLEAN : LoadSettingsCall(getOk)
    \/ \E updates \in SettingsUpdates, getOk, setOk \in BOOLEAN :
          UpdateSettingsCall(updates, getOk, setOk)

SpecSettings == InitSettings /\ [][NextSettings]_vars

\* record r has the fields of TransferSettings, those of shortcuts included
CompleteSettings(r) ==
    /\ DOMAIN r = SettingsFields
    /\ DOMAIN r.shortcuts = ShortcutFields

\* r holds the stored value of every field the stored record defines, at
\* top level or inside shortcuts, and the default value of every other field
MergedWithDefaults(r, stored) ==
    /\ CompleteSettings(r)
    /\ \A f \in SettingsFields \ {"shortcuts"} :
          r[f] = IF f \in DOMAIN stored THEN stored[f] ELSE DEFAULT_SETTINGS[f]
    /\ \A g \in ShortcutFields :
          r.shortcuts[g] =
              IF "shortcuts" \in DOMAIN stored /\ g \in DOMAIN stored.shortcuts
              THEN stored.shortcuts[g] ELSE DEFAULT_SETTINGS.shortcuts[g]

\* the same, looking at the top level only: shortcuts is one value
MergedAtTopLevel(r, stored) ==
    /\ DOMAIN r = SettingsFields
    /\ \A f \in SettingsFields :
          r[f] = IF f \in DOMAIN stored THEN stored[f] ELSE DEFAULT_SETTINGS[f]

\* a loadSettings after the update returns the values of the updates for
\* their fields and the values it returned before for the others
UpdateKept(before, updates, after) ==
    LET previous == LoadSettings(before, TRUE)
        following == LoadSettings(after, TRUE)
    IN  /\ DOMAIN following = DOMAIN previous \cup DOMAIN updates
        /\ \A f \in DOMAIN following :
              following[f] = IF f \in DOMAIN updates THEN updates[f] ELSE previous[f]

StorageWorked ==
    /\ settingsStore.pc = "stored" /\ settingsStore.call # "none"
    /\ settingsStore.getOk
    /\ settingsStore.call = "updateSettings" => settingsStore.setOk

\* C35: loadSettings returns a complete TransferSettings record: every field
\* the stored record defines keeps its stored value and every field it lacks,
\* at top level or inside the nested shortcuts record, takes the default
\* value; after updateSettings(u) a following loadSettings returns u's values
\* for the fields of u and the previous values for all other fields.  (Calls
\* in which clientStorage works.)
C35_SettingsMergedWithDefaults ==
    StorageWorked =>
        /\ settingsStore.call = "loadSettings" /\ settingsStore.before # <<>> =>
              MergedWithDefaults(settingsStore.returned, settingsStore.before[1])
        /\ settingsStore.call = "loadSettings" /\ settingsStore.before = <<>> =>
              settingsStore.returned = DEFAULT_SETTINGS
        /\ settingsStore.call = "updateSettings" =>
              UpdateKept(settingsStore.before, settingsStore.updates,
                         settingsStore.stored)

\* what does hold: the merge is that of the top-level fields, shortcuts being
\* one of them, and an update is kept
C35_MergedAtTopLevel ==
    StorageWorked =>
        /\ settingsStore.call = "loadSettings" /\ settingsStore.before # <<>> =>
              MergedAtTopLevel(settingsStore.returned, settingsStore.before[1])
        /\ settingsStore.call = "loadSettings" /\ settingsStore.before = <<>> =>
              settingsStore.returned = DEFAULT_SETTINGS
        /\ settingsStore.call = "updateSettings" =>
              UpdateKept(settingsStore.before, settingsStore.updates,
                         settingsStore.stored)

\* loadSettings has returned a record whose shortcuts lack a field
C35_IncompleteShortcuts ==
    /\ StorageWorked /\ settingsStore.call = "loadSettings"
    /\ settingsStore.before # <<>>
    /\ "shortcuts" \in DOMAIN settingsStore.before[1]
    /\ ~CompleteSettings(settingsStore.returned)

(***************************************************************************)
(* C36: the pages named 'Transfer' (SpecTransfer).  The document of the    *)
(* initial state is a fresh one or the one an earlier transfer left.       *)
(***************************************************************************)
PagesNamedTransfer == {k \in 1..Len(pages) : pages[k].name = "Transfer"}

\* C36: after any sequence of transfers under any transferPageBehavior (ask,
\* append, replace, timestamp) the document holds at most one page named
\* exactly 'Transfer'.
C36_OneTransferPage == Cardinality(PagesNamedTransfer) <= 1

\* what does hold: at most one such page as long as no request carries 'ask'
C36_OneTransferPageUnlessAsk ==
    (\A t \in Runs : xfer[t].pc # "idle" =>
        xfer[t].settings.transferPageBehavior # "ask")
        => Cardinality(PagesNamedTransfer) <= 1

\* a request with 'ask' has met the page of an earlier transfer and has made
\* a second page of the same name
C36_SecondTransferPage ==
    \E t \in Runs :
        /\ xfer[t].pc # "idle" /\ xfer[t].settings.transferPageBehavior = "ask"
        /\ Cardinality(PagesNamedTransfer) = 2
        /\ pages[2].children = OldChildren

(***************************************************************************)
(* C37: the progress stream of a transfer (SpecTransfer).                  *)
(***************************************************************************)
\* the progress records of the TRANSFER_PROGRESS messages of run t
ProgressStream(t) ==
    LET IsProgress(m) == m.type = "TRANSFER_PROGRESS" /\ m.run = t
        stream == SelectSeq(uiMessages, IsProgress)
    IN  [k \in 1..Len(stream) |-> stream[k].progress]

\* collectAndTransferComponents has returned its result
CollectionReturned(t) == xfer[t].pc # "idle" /\ xfer[t].result # <<>>

\* C37: in the progress stream of one transfer the processed values never
\* decrease and never exceed total, though the tracker is advanced per clone
\* (increment) and per batch (updateProgress); the last update of a transfer
\* whose collection has completed has processed = total and percentage 100.
C37_ProgressMonotoneAndBounded ==
    \A t \in Runs :
        LET stream == ProgressStream(t)
        IN  /\ \A k \in 1..Len(stream) :
                  /\ stream[k].processed \in 0..stream[k].total
                  /\ k > 1 => stream[k - 1].processed <= stream[k].processed
            /\ CollectionReturned(t) =>
                  /\ Len(stream) > 0
                  /\ stream[Len(stream)].processed = stream[Len(stream)].total
                  /\ stream[Len(stream)].percentage = 100

\* a transfer of three components in batches of two has completed with the
\* first of them skipped as locked; in its stream the increment of the
\* second component's clone (1) is followed by the update of the batch (2)
C37_Witness ==
    \E t \in Runs :
        /\ CollectionReturned(t)
        /\ Len(xfer[t].components) = 3 /\ xfer[t].settings.batchSize = 2
        /\ Len(xfer[t].collectedNodes) = 2
        /\ xfer[t].live[1].status = "locked"
        /\ LET stream == ProgressStream(t)
           IN  /\ stream[Len(stream)].percentage = 100
               /\ \E k \in 2..Len(stream) :
                     /\ stream[k - 1].processed = 1 /\ stream[k].processed = 2
                     /\ stream[k].phase = "collecting"

(***************************************************************************)
(* C38: the componentsTransferred statistic (SpecTransfer).                *)
(***************************************************************************)
\* the TRANSFER_COMPLETE messages of run t
CompleteMessages(t) ==
    LET IsComplete(m) == m.type = "TRANSFER_COMPLETE" /\ m.run = t
    IN  SelectSeq(uiMessages, IsComplete)

\* the statistic of the history entry and of TRANSFER_COMPLETE is n
TransferredReported(t, n) ==
    /\ xfer[t].entry[1].stats.componentsTransferred = n
    /\ \A k \in 1..Len(CompleteMessages(t)) :
          CompleteMessages(t)[k].stats.componentsTransferred = n
    /\ \A k \in 1..Len(history) :
          history[k].id = t => history[k].stats.componentsTransferred = n

\* C38: componentsTransferred, as reported in TransferComplete and stored in
\* the history entry, is the number of clones the orchestrator created (the
\* number of node ids it returned), also when requested components were
\* skipped as locked, missing or failed.
C38_TransferredCountsClones ==
    \A t \in Runs : CollectionReturned(t) =>
        TransferredReported(t, Len(xfer[t].result[1].nodeIds))

\* what does hold: the statistic is the number of components requested that
\* the analysis holds, which is the number of clones when none was skipped
C38_TransferredCountsRequested ==
    \A t \in Runs : CollectionReturned(t) =>
        /\ TransferredReported(t, Len(xfer[t].components))
        /\ xfer[t].warnings = <<>> =>
              Len(xfer[t].result[1].nodeIds) = Len(xfer[t].components)

\* a completed transfer that reports more components than it cloned
C38_ReportsSkipped ==
    \E t \in Runs :
        /\ xfer[t].pc = "done" /\ Len(CompleteMessages(t)) = 1
        /\ Len(xfer[t].result[1].nodeIds) = 1
        /\ CompleteMessages(t)[1].stats.componentsTransferred = 2
        /\ history[1].id = t /\ history[1].stats.componentsTransferred = 2

(***************************************************************************)
(* C39: the warnings of an analysis result against its statistics.         *)
(***************************************************************************)
\* the warnings of a type, and those of them about one id
WarningsOfType(type) ==
    {k \in 1..Len(Result.warnings) : Result.warnings[k].type = type}

WarningsOfTypeAbout(type, id) ==
    {k \in WarningsOfType(type) : Result.warnings[k].componentId = id}

WarningTypes ==
    {"EXTERNAL_DEPENDENCY", "LOCKED_COMPONENT", "HIDDEN_COMPONENT", "MISSING_DEFINITION"}

\* C39: in every analysis result each component id carries at most one
\* warning of each type, the number of LockedComponent warnings is
\* stats.lockedComponents and the number of HiddenComponent warnings is
\* stats.hiddenComponents, however many instances reference a definition.
C39_OneWarningPerTypeAndId ==
    Returned =>
        /\ \A id \in Nodes, type \in WarningTypes :
              Cardinality(WarningsOfTypeAbout(type, id)) <= 1
        /\ Cardinality(WarningsOfType("LOCKED_COMPONENT")) = Result.stats.lockedComponents
        /\ Cardinality(WarningsOfType("HIDDEN_COMPONENT")) = Result.stats.hiddenComponents

\* a locked definition that both instances of the selected frame reference
\* is in the result, with one warning
C39_Witness ==
    /\ Returned
    /\ mainComponent["iF1"] = "A" /\ mainComponent["iF2"] = "A"
    /\ {"iF1", "iF2"} \subseteq SelectionInstances(analysis.selection)
    /\ "A" \in ResultKeys
    /\ locked["A"]
    /\ Cardinality(WarningsOfTypeAbout("LOCKED_COMPONENT", "A")) = 1
    /\ Result.stats.lockedComponents >= 1

\* the same for a hidden definition, analysed with includeHidden
C39_WitnessHidden ==
    /\ Returned
    /\ mainComponent["iF1"] = "A" /\ mainComponent["iF2"] = "A"
    /\ {"iF1", "iF2"} \subseteq SelectionInstances(analysis.selection)
    /\ "A" \in ResultKeys
    /\ ~visible["A"]
    /\ Cardinality(WarningsOfTypeAbout("HIDDEN_COMPONENT", "A")) = 1
    /\ Result.stats.hiddenComponents >= 1

(***************************************************************************)
(* C40: positions and groups against the component map (SpecLayout).       *)
(***************************************************************************)
\* the places (group, index) at which id stands in the componentIds of groups
PlacesInGroups(groups, id) ==
    {gm \in UNION {{<<g, m>> : m \in 1..Len(groups[g].componentIds)} :
                      g \in 1..Len(groups)} :
        groups[gm[1]].componentIds[gm[2]] = id}

\* C40: for every grouping method (hierarchy, type, flat, selection) and
\* every non-empty component map, the positions map that calculateLayout
\* returns has exactly the ids of the component map as keys, and every
\* component id stands in the componentIds of exactly one group, once.
C40_PositionsAndGroupsCoverMap ==
    /\ layoutCall.pc = "returned"
    /\ Len(layoutCall.components) > 0
    => LET r == layoutCall.result
           ids == MapKeys(layoutCall.components)
       IN  /\ MapKeys(r.positions) = ids
           /\ Len(r.positions) = Cardinality(ids)
           /\ \A id \in ids : Cardinality(PlacesInGroups(r.groups, id)) = 1
           /\ \A g \in 1..Len(r.groups) :
                 \A m \in 1..Len(r.groups[g].componentIds) :
                    r.groups[g].componentIds[m] \in ids

\* variant sets and components handed over mixed, grouped by type: two
\* groups, the set first
C40_Witness ==
    /\ layoutCall.pc = "returned"
    /\ layoutCall.settings.groupingMethod = "type"
    /\ Len(layoutCall.components) = 3
    /\ layoutCall.components[1].type = "COMPONENT"
    /\ layoutCall.components[2].type = "COMPONENT_SET"
    /\ layoutCall.components[3].type = "COMPONENT"
    /\ Len(layoutCall.result.groups) = 2
    /\ layoutCall.result.groups[1].componentIds = <<"c2">>
    /\ layoutCall.result.groups[2].componentIds = <<"c1", "c3">>
    /\ Len(layoutCall.result.positions) = 3

====
